---- MODULE Spec2Model ----
(***************************************************************************)
(* A model of the SFNT font decoder of src/font/sfnt.go.                   *)
(*                                                                         *)
(* Spec      : ParseSFNT's header and table-directory loop over a byte     *)
(*             buffer (lines 66-116), run twice with one byte changed in   *)
(*             between.                                                    *)
(* SpecDecode: ParseSFNT from the required-table check to its return       *)
(*             (lines 118-189): which decoders run, and in which order.    *)
(* SpecCmap  : parseCmap over the bytes of a cmap table (lines 288-500)    *)
(*             followed by lookups in the decoded subtables (193-286).     *)
(***************************************************************************)
EXTENDS Integers, Sequences, FiniteSets, TLC

\* ------------------------------------------------------------------------
\* Bytes, unsigned 16- and 32-bit arithmetic, Go slices
\* ------------------------------------------------------------------------

Pow16 == 2^16

\* A uint32 is the pair << high 16 bits, low 16 bits >>: the model checker's own
\* integers are 32-bit signed, so a uint32 is not one of them.
U32(n)  == << n \div Pow16, n % Pow16 >>
FitsInt(x) == x[1] < 32768
ToInt(x) == x[1] * Pow16 + x[2]
MaxUint32 == << 65535, 65535 >>

\* uint32 and uint16 arithmetic wraps
Add32(x, y) ==
    LET lo == x[2] + y[2] IN << (x[1] + y[1] + lo \div Pow16) % Pow16, lo % Pow16 >>
Sub32(x, y) ==
    LET lo == x[2] - y[2]
        borrow == IF lo < 0 THEN 1 ELSE 0
    IN  << (x[1] - y[1] - borrow + 2 * Pow16) % Pow16, (lo + Pow16) % Pow16 >>
\* k * x for a factor k below 2^15
Mul32(k, x) ==
    LET lo == k * x[2] IN << (k * x[1] + lo \div Pow16) % Pow16, lo % Pow16 >>
Lt32(x, y) == x[1] < y[1] \/ (x[1] = y[1] /\ x[2] < y[2])
Le32(x, y) == x[1] < y[1] \/ (x[1] = y[1] /\ x[2] <= y[2])
Add16(x, y) == (x + y) % Pow16
Sub16(x, y) == (x - y + Pow16) % Pow16

\* a Go []byte is a sequence of bytes; At is 0-based indexing
At(buf, k) == buf[k + 1]

\* buf[lo:hi], for 0 <= lo <= hi <= len(buf)
Slice(buf, lo, hi) == SubSeq(buf, lo + 1, hi)

\* the Go runtime's check of buf[lo:hi] against the capacity (uint32 operands)
SliceOK(lo, hi, cap) == Le32(lo, hi) /\ Le32(hi, U32(cap))

BE16(x) == << (x \div 256) % 256, x % 256 >>
BE32(x) == BE16(x[1]) \o BE16(x[2])

\* binary.BigEndian.Uint16 / Uint32 of the bytes at position p
Uint16At(buf, p) == At(buf, p) * 256 + At(buf, p + 1)
Uint32At(buf, p) == << Uint16At(buf, p), Uint16At(buf, p + 2) >>

\* binary.BigEndian.PutUint32(buf[p:], v)
PutUint32(buf, p, v) ==
    [k \in 1..Len(buf) |-> IF k - 1 >= p /\ k - 1 < p + 4 THEN BE32(v)[k - p] ELSE buf[k]]

\* the cursor reader: a read that does not fit in the remaining bytes yields 0
ReadUint8(buf, p)  == IF p + 1 <= Len(buf) THEN At(buf, p) ELSE 0
ReadUint16(buf, p) == IF p + 2 <= Len(buf) THEN Uint16At(buf, p) ELSE 0
ReadUint32(buf, p) == IF p + 4 <= Len(buf) THEN Uint32At(buf, p) ELSE U32(0)
ReadInt16(buf, p) ==
    LET u == ReadUint16(buf, p) IN IF u >= 32768 THEN u - Pow16 ELSE u

\* the sum of the big-endian 32-bit words of a padded table range
RECURSIVE calcChecksum(_)
calcChecksum(bytes) ==
    IF Len(bytes) < 4 THEN U32(0)
    ELSE Add32(Uint32At(bytes, 0), calcChecksum(SubSeq(bytes, 5, Len(bytes))))

\* ------------------------------------------------------------------------
\* Table tags
\* ------------------------------------------------------------------------

OTTO     == << 79, 84, 84, 79 >>
TrueType == << 0, 1, 0, 0 >>
TagTrue  == << 116, 114, 117, 101 >>

TagHead == << 104, 101, 97, 100 >>
TagCmap == << 99, 109, 97, 112 >>
TagHhea == << 104, 104, 101, 97 >>
TagHmtx == << 104, 109, 116, 120 >>
TagMaxp == << 109, 97, 120, 112 >>
TagName == << 110, 97, 109, 101 >>
TagOS2  == << 79, 83, 47, 50 >>
TagPost == << 112, 111, 115, 116 >>
TagGlyf == << 103, 108, 121, 102 >>
TagLoca == << 108, 111, 99, 97 >>
TagCFF  == << 67, 70, 70, 32 >>
TagCFF2 == << 67, 70, 70, 50 >>
TagKern == << 107, 101, 114, 110 >>

\* ------------------------------------------------------------------------
\* State
\* ------------------------------------------------------------------------

VARIABLES
    \* ParseSFNT, header and table directory
    b,                  \* the buffer passed to ParseSFNT ([]byte, modified in place)
    input,              \* the bytes b held when ParseSFNT was called
    pc,                 \* position in ParseSFNT
    numTables,          \* numTables read from the header
    i,                  \* index of the directory loop
    dir,                \* the records read so far: tag, checksum, offset, length
    checksumAdjustment, \* the saved head.checksumAdjustment
    tables,             \* map[string][]byte as tag -> [offset, length]
    result,             \* what ParseSFNT returned ("" while running)
    run,                \* 1: the first call, 2: the call after one byte was changed
    accepted,           \* the records of the accepted first call
    changed,            \* the position of the changed byte (-1: none)
    \* ParseSFNT, required tables and decoders
    IsCFF,              \* sfnt.IsCFF
    IsTrueType,         \* sfnt.IsTrueType
    decoded,            \* the tags whose decoded table is set in sfnt (Head, Maxp, ...)
    tableNames,         \* what is left of the sorted tableNames
    order,              \* the decoders started so far, each with how it ended
    \* parseCmap and the lookups (there b is sfnt.Tables["cmap"], numTables the
    \* number of encoding records)
    NumGlyphs,          \* sfnt.Maxp.NumGlyphs
    j,                  \* index of the encoding-record loop
    offsets,            \* offsets[0] = 0, then the offset of each new subtable
    lengths,            \* lengths[0] = 4+8*numTables, then the length of each new subtable
    Cmap,               \* sfnt.Cmap: EncodingRecords and Subtables
    rs,                 \* the subtable header read in the last iteration
    lookups,            \* the GlyphIndex calls made on the decoded table
    \* the decoders of loca, glyf, hhea, hmtx and kern, and the accessors
    table,              \* sfnt.Tables of these decoders: table name -> bytes
    IndexToLocFormat,   \* sfnt.Head.IndexToLocFormat
    Loca,               \* sfnt.Loca: << >> is nil, else << [Offsets] >>
    Glyf,               \* sfnt.Glyf: << >> is nil, else << [data, loca] >>
    Hhea,               \* sfnt.Hhea: << >> is nil, else << [NumberOfHMetrics] >>
    Hmtx,               \* sfnt.Hmtx: << >> is nil, else << [HMetrics, LeftSideBearings] >>
    Kern,               \* sfnt.Kern: << >> is nil, else << [Subtables] >>
    Post,               \* sfnt.Post: << >> is nil, else << [GlyphName] >>
    Name,               \* sfnt.Name: << >> is nil, else << [NameRecord, LangTagRecord] >>
    calls,              \* the accessor calls made on the font, each with its outcome
    \* queries that run at the same time on a returned font
    threads,            \* each thread's query, its arguments and its position in it
    locals              \* the structures the running queries allocated: k, contour

dirVars == << b, input, pc, numTables, i, dir, checksumAdjustment, tables, result,
              run, accepted, changed >>
decVars == << IsCFF, IsTrueType, decoded, tableNames, order >>
cmapVars == << NumGlyphs, j, offsets, lengths, Cmap, rs, lookups >>
tblVars == << table, IndexToLocFormat, Loca, Glyf, Hhea, Hmtx, Kern, calls >>
nameVars == << Post, Name >>
queryVars == << threads, locals >>

\* what the directory loop leaves alone
notDir == << decVars, cmapVars, tblVars, nameVars, queryVars >>
\* what the decoders' sequencing leaves alone
notDec == << b, input, numTables, i, dir, checksumAdjustment, run, accepted, changed,
             cmapVars, tblVars, nameVars, queryVars >>
\* what parseCmap and the lookups leave alone
notCmap == << input, i, dir, checksumAdjustment, tables, run, accepted, changed, decVars,
              tblVars, nameVars, queryVars >>
\* what the table decoders and the accessors leave alone
notTbl == << b, input, numTables, i, dir, checksumAdjustment, tables, run, accepted, changed,
             IsCFF, decoded, tableNames, order, j, offsets, lengths, Cmap, rs, lookups,
             nameVars, queryVars >>
\* what parsePost, parseName and GlyphName leave alone
notNames == << b, input, numTables, i, dir, checksumAdjustment, tables, run, accepted,
               changed, decVars, cmapVars, table, IndexToLocFormat, Loca, Glyf, Hhea, Hmtx,
               Kern, queryVars >>

vars == << dirVars, decVars, cmapVars, tblVars, nameVars, queryVars >>

NoTables == [t \in {} |-> 0]

\* the decoders have not started
DecIdle ==
    /\ IsCFF = FALSE
    /\ IsTrueType = FALSE
    /\ decoded = {}
    /\ tableNames = << >>
    /\ order = << >>

\* no subtable header was read
NoHeader == [offset |-> << 0, 0 >>, format |-> 0, length |-> << 0, 0 >>, extracted |-> FALSE]

\* parseCmap has not started
CmapIdle ==
    /\ NumGlyphs = 0
    /\ j = 0
    /\ offsets = << >>
    /\ lengths = << >>
    /\ Cmap = [EncodingRecords |-> << >>, Subtables |-> << >>]
    /\ rs = NoHeader
    /\ lookups = << >>

\* no table of the table decoders is present and none was decoded
TblIdle ==
    /\ table = [t \in {} |-> << >>]
    /\ IndexToLocFormat = 0
    /\ Loca = << >>
    /\ Glyf = << >>
    /\ Hhea = << >>
    /\ Hmtx = << >>
    /\ Kern = << >>
    /\ Post = << >>
    /\ Name = << >>
    /\ calls = << >>
    /\ threads = << >>
    /\ locals = << >>

\* ------------------------------------------------------------------------
\* ParseSFNT: header and table directory (lines 66-116)
\* ------------------------------------------------------------------------

ErrInvalidFontData == "invalid font data"
ErrBadVersion      == "bad SFNT version"
ErrBadChecksum     == "bad checksum"
Panic              == "panic"
TablesRead         == "tables read"

\* line 94
Padding(length) == U32((4 - (length[2] % 4)) % 4)

\* line 95, negated: the record's padded range lies in a buffer of lenb bytes
RangeInBoundsNoPadding(lenb, offset, length) ==
    ~ (Le32(lenb, offset) \/ Lt32(Sub32(lenb, offset), length))

RangeInBounds(lenb, offset, length) ==
    ~ (\/ Le32(lenb, offset)
       \/ Lt32(Sub32(lenb, offset), length)
       \/ Lt32(Sub32(Sub32(lenb, offset), length), Padding(length)))

\* line 106: overwrite head.checksumAdjustment with zero
ZeroAdjustment(buf, offset) == PutUint32(buf, ToInt(offset) + 8, U32(0))

\* line 108: the checksum of the record's padded range
TableChecksum(buf, offset, length) ==
    calcChecksum(Slice(buf, ToInt(offset), ToInt(offset) + ToInt(length) + ToInt(Padding(length))))

\* line 108: the stored checksum is compared for every tag
ChecksumMatchesHeadOnly(buf, r) ==
    r.tag # << 104, 101, 97, 100 >> \/ TableChecksum(buf, r.offset, r.length) = r.checksum

ChecksumMatches(buf, r) == TableChecksum(buf, r.offset, r.length) = r.checksum

\* lines 89-92: the record at index k of the directory
ReadRecord(buf, k) ==
    [tag      |-> Slice(buf, 12 + 16 * k, 16 + 16 * k),
     checksum |-> ReadUint32(buf, 16 + 16 * k),
     offset   |-> ReadUint32(buf, 20 + 16 * k),
     length   |-> ReadUint32(buf, 24 + 16 * k)]

Return(r) ==
    /\ pc' = "done"
    /\ result' = r

\* line 73
VersionOK(buf) == Slice(buf, 0, 4) = OTTO \/ Uint32At(buf, 0) = U32(65536)

\* lines 66-84
ParseHeader ==
    /\ pc = "start"
    /\ IF Len(b) < 12
       THEN Return(ErrInvalidFontData) /\ UNCHANGED numTables
       ELSE IF ~ VersionOK(b)
       THEN Return(ErrBadVersion) /\ UNCHANGED numTables
       ELSE LET n == ReadUint16(b, 4)
                frontSize == Add32(U32(12), Mul32(16, U32(n)))
            IN  IF Lt32(U32(Len(b)), frontSize)
                THEN Return(ErrInvalidFontData) /\ UNCHANGED numTables
                ELSE /\ pc' = "records"
                     /\ numTables' = n
                     /\ UNCHANGED result
    /\ i' = 0
    /\ checksumAdjustment' = U32(0)
    /\ tables' = NoTables
    /\ UNCHANGED << b, input, dir, run, accepted, changed >>
    /\ UNCHANGED notDir

\* lines 88-115, one iteration of the loop
ParseRecord ==
    /\ pc = "records"
    /\ i < numTables
    /\ LET r       == ReadRecord(b, i)
           offset  == r.offset
           length  == r.length
           isHead  == r.tag = TagHead
           end     == Add32(offset, length)
       IN  /\ dir' = Append(dir, r)
           /\ IF ~ RangeInBounds(U32(Len(b)), offset, length)
              THEN Return(ErrInvalidFontData) /\ UNCHANGED << b, checksumAdjustment, tables, i >>
              ELSE IF isHead /\ Lt32(length, U32(12))
              THEN Return(ErrInvalidFontData) /\ UNCHANGED << b, checksumAdjustment, tables, i >>
              ELSE IF \/ isHead /\ ~ SliceOK(Add32(offset, U32(12)), U32(Len(b)), Len(b))
                      \/ ~ SliceOK(offset, Add32(end, Padding(length)), Len(b))
                      \/ ~ SliceOK(offset, end, Len(b))
              THEN Return(Panic) /\ UNCHANGED << b, checksumAdjustment, tables, i >>
              ELSE LET zeroed == IF isHead THEN ZeroAdjustment(b, offset) ELSE b
                       adj    == IF isHead THEN Uint32At(b, ToInt(offset) + 8)
                                 ELSE checksumAdjustment
                   IN  /\ checksumAdjustment' = adj
                       /\ IF ~ ChecksumMatches(zeroed, r)
                          THEN /\ Return(ErrBadChecksum)
                               /\ b' = zeroed
                               /\ UNCHANGED << tables, i >>
                          ELSE /\ b' = IF isHead THEN PutUint32(zeroed, ToInt(offset) + 8, adj)
                                       ELSE b
                               /\ tables' = [t \in DOMAIN tables \cup {r.tag} |->
                                               IF t = r.tag
                                               THEN [offset |-> ToInt(offset), length |-> ToInt(length)]
                                               ELSE tables[t]]
                               /\ i' = i + 1
                               /\ UNCHANGED << pc, result >>
    /\ UNCHANGED << input, numTables, run, accepted, changed >>
    /\ UNCHANGED notDir

\* line 116: every record was read
ParseTablesRead ==
    /\ pc = "records"
    /\ i = numTables
    /\ Return(TablesRead)
    /\ UNCHANGED << b, input, numTables, i, dir, checksumAdjustment, tables, run,
                    accepted, changed >>
    /\ UNCHANGED notDir

\* ------------------------------------------------------------------------
\* The buffers ParseSFNT is called with
\* ------------------------------------------------------------------------

\* bytes that follow the table directory
DirBodyLen == 16

NumTablesChoices  == {1, 2}
DirTagChoices     == {TagHead, TagCmap}
DirLengthChoices  == {U32(0), U32(4), U32(12), U32(13), MaxUint32}
DirOffsetChoices(front) ==
    {U32(0), U32(front), U32(front + 1), U32(front + 4), U32(front + 12), << 65535, 65528 >>}
ByteDeltas        == {1, 128}

RECURSIVE Flatten(_)
Flatten(ss) == IF ss = << >> THEN << >> ELSE Head(ss) \o Flatten(Tail(ss))

DirRecordBytes(tag, checksum, offset, length) ==
    tag \o BE32(checksum) \o BE32(offset) \o BE32(length)

\* a font file: version tag, table count, directory records, table bytes
DirEncode(ver, n, recs, cks) ==
    ver \o BE16(n) \o << 0, 0, 0, 0, 0, 0 >>
        \o Flatten([k \in 1..Len(recs) |->
                      DirRecordBytes(recs[k].tag, cks[k], recs[k].offset, recs[k].length)])
        \o [k \in 1..DirBodyLen |-> k]

\* the checksum a font producer stores for a record: the sum over the padded
\* range with head.checksumAdjustment taken as zero; wrong by one when ~good
DirStoredChecksum(plain, r) ==
    LET pad   == (4 - (r.length[2] % 4)) % 4
        fits  == FitsInt(r.offset) /\ FitsInt(r.length)
                 /\ ToInt(r.offset) + ToInt(r.length) + pad <= Len(plain)
        off   == ToInt(r.offset)
        bytes == IF r.tag = TagHead /\ ToInt(r.length) >= 12
                 THEN [k \in 1..Len(plain) |->
                         IF k - 1 >= off + 8 /\ k - 1 < off + 12 THEN 0 ELSE plain[k]]
                 ELSE plain
        sum   == IF fits THEN calcChecksum(SubSeq(bytes, off + 1, off + ToInt(r.length) + pad))
                 ELSE U32(0)
    IN  IF r.good THEN sum ELSE Add32(sum, U32(1))

DirBuffer(ver, n, recs) ==
    LET plain == DirEncode(ver, n, recs, [k \in 1..Len(recs) |-> U32(0)])
    IN  DirEncode(ver, n, recs, [k \in 1..Len(recs) |-> DirStoredChecksum(plain, recs[k])])

DirRecChoices(front) ==
    [tag : DirTagChoices, offset : DirOffsetChoices(front), length : DirLengthChoices,
     good : BOOLEAN]

DirOneHead == << [tag |-> TagHead, offset |-> U32(28), length |-> U32(12), good |-> TRUE] >>

\* well-formed headers with every combination of records, a bad version tag, a
\* table count that exceeds the buffer, and buffers shorter than the header
DirInputs ==
    UNION { { DirBuffer(TrueType, n, recs) : recs \in [1..n -> DirRecChoices(12 + 16 * n)] } :
            n \in NumTablesChoices }
    \cup { DirBuffer(OTTO, 1, DirOneHead),
           DirBuffer(TagTrue, 1, DirOneHead),
           DirBuffer(TrueType, 3, DirOneHead),
           DirBuffer(TrueType, 0, << >>),
           SubSeq(DirBuffer(TrueType, 0, << >>), 1, 11),
           << >> }

DirInit ==
    /\ b \in DirInputs
    /\ input = b
    /\ pc = "start"
    /\ numTables = 0
    /\ i = 0
    /\ dir = << >>
    /\ checksumAdjustment = U32(0)
    /\ tables = NoTables
    /\ result = ""
    /\ run = 1
    /\ accepted = << >>
    /\ changed = -1
    /\ DecIdle
    /\ CmapIdle
    /\ TblIdle

\* between the two calls: one byte of an accepted buffer gets another value
CorruptByte ==
    /\ pc = "done"
    /\ run = 1
    /\ result = TablesRead
    /\ \E p \in 0..(Len(b) - 1), d \in ByteDeltas :
          /\ b' = [b EXCEPT ![p + 1] = (@ + d) % 256]
          /\ changed' = p
    /\ input' = b'
    /\ accepted' = dir
    /\ run' = 2
    /\ pc' = "start"
    /\ result' = ""
    /\ numTables' = 0
    /\ i' = 0
    /\ dir' = << >>
    /\ checksumAdjustment' = U32(0)
    /\ tables' = NoTables
    /\ UNCHANGED notDir

Init == DirInit

Next ==
    \/ ParseHeader
    \/ ParseRecord
    \/ ParseTablesRead
    \/ CorruptByte

Spec == Init /\ [][Next]_vars

\* ------------------------------------------------------------------------
\* Claims about the table directory
\* ------------------------------------------------------------------------

\* offset < len(b), length <= len(b) - offset, padding <= len(b) - offset - length,
\* in unbounded arithmetic
InsideBuffer(lenb, r) ==
    /\ FitsInt(r.offset)
    /\ FitsInt(r.length)
    /\ ToInt(r.offset) < lenb
    /\ ToInt(r.length) <= lenb - ToInt(r.offset)
    /\ (4 - (r.length[2] % 4)) % 4 <= lenb - ToInt(r.offset) - ToInt(r.length)

LastRecord == dir[Len(dir)]

\* C1: a record whose padded range does not lie inside the buffer makes ParseSFNT
\* return the invalid-font-data error at that record, no slice of b is ever out
\* of range, and when the directory is accepted every entry of Tables lies in b.
C1_RangesInsideBuffer ==
    /\ result # Panic
    /\ \A k \in 1..Len(dir) :
          ~ InsideBuffer(Len(b), dir[k]) => (k = Len(dir) /\ result = ErrInvalidFontData)
    /\ result = TablesRead =>
          \A t \in DOMAIN tables : tables[t].offset + tables[t].length <= Len(b)

\* a record that ends inside the buffer and whose padding does not was rejected
C1_Witness ==
    /\ result = ErrInvalidFontData
    /\ dir # << >>
    /\ FitsInt(LastRecord.offset)
    /\ FitsInt(LastRecord.length)
    /\ ToInt(LastRecord.offset) + ToInt(LastRecord.length) <= Len(b)
    /\ ~ InsideBuffer(Len(b), LastRecord)

InRange(p, r) == ToInt(r.offset) <= p /\ p < ToInt(r.offset) + ToInt(r.length)

InAdjustment(p, r) ==
    r.tag = TagHead /\ ToInt(r.offset) + 8 <= p /\ p < ToInt(r.offset) + 12

ChangedInTable == \E k \in 1..Len(accepted) : InRange(changed, accepted[k])

\* C2 as stated: changing any byte inside a table's range of an accepted buffer
\* makes the next ParseSFNT fail with a checksum mismatch.
C2_AnyByteDetected ==
    (run = 2 /\ pc = "done" /\ ChangedInTable) => result = ErrBadChecksum

\* C2 amended: changing a byte that lies inside a table's range, after the table
\* directory, and outside bytes 8..11 of every head table makes the next
\* ParseSFNT fail with a checksum mismatch.
C2_ByteOutsideAdjustmentDetected ==
    (/\ run = 2
     /\ pc = "done"
     /\ ChangedInTable
     /\ changed >= 12 + 16 * Len(accepted)
     /\ \A k \in 1..Len(accepted) : ~ InAdjustment(changed, accepted[k]))
    => result = ErrBadChecksum

\* a changed byte of a head table, outside its checksumAdjustment, was detected
C2_Witness ==
    /\ run = 2
    /\ pc = "done"
    /\ result = ErrBadChecksum
    /\ changed >= 12 + 16 * Len(accepted)
    /\ \E k \in 1..Len(accepted) : accepted[k].tag = TagHead /\ InRange(changed, accepted[k])
    /\ \A k \in 1..Len(accepted) : ~ InAdjustment(changed, accepted[k])

\* C3: on every return of ParseSFNT the buffer holds the bytes it was called with.
C3_BufferRestored == pc = "done" => b = input

\* the byte ranges of two records share a byte
Intersect(r, s) ==
    \E p \in 0..(Len(b) - 1) : InRange(p, r) /\ InRange(p, s)

ErrMissingTable == "missing table"
ErrMissingCFF   == "CFF: missing table"
ErrBothCFF      == "CFF2: CFF table already exists"
ErrDecode       == "decoder error"
FontReturned    == "sfnt"

\* line 124
RequiredTablesNoPost ==
    { TagCmap, TagHead, TagHhea, TagHmtx, TagMaxp, TagName, TagOS2 }

RequiredTables ==
    { TagCmap, TagHead, TagHhea, TagHmtx, TagMaxp, TagName, TagOS2, TagPost }

\* lines 125-127
RequiredFor(isTrueType) ==
    RequiredTables \cup (IF isTrueType THEN { TagGlyf, TagLoca } ELSE {})

\* lines 116-141
CheckRequiredTables ==
    /\ pc = "records"
    /\ i = numTables
    /\ IsCFF' = (Slice(b, 0, 4) = OTTO)
    /\ IsTrueType' = (Uint32At(b, 0) = U32(65536))
    /\ IF ~ (RequiredFor(IsTrueType') \subseteq DOMAIN tables)
       THEN Return(ErrMissingTable)
       ELSE IF IsCFF' /\ TagCFF \notin DOMAIN tables /\ TagCFF2 \notin DOMAIN tables
       THEN Return(ErrMissingCFF)
       ELSE IF IsCFF' /\ TagCFF \in DOMAIN tables /\ TagCFF2 \in DOMAIN tables
       THEN Return(ErrBothCFF)
       ELSE pc' = "parseHead" /\ UNCHANGED result
    /\ UNCHANGED << tables, decoded, tableNames, order >>
    /\ UNCHANGED notDec

\* the decoded tables a decoder reads through sfnt: parseHhea line 874,
\* parseLoca 1053-1055, parseCmap 366, parseGlyf 755, parseHmtx 909, parsePost 1372
Needs(t) ==
    IF t = TagHhea THEN { TagMaxp }
    ELSE IF t = TagLoca THEN { TagMaxp, TagHead }
    ELSE IF t = TagCmap THEN { TagMaxp }
    ELSE IF t = TagGlyf THEN { TagLoca }
    ELSE IF t = TagHmtx THEN { TagHhea, TagMaxp }
    ELSE IF t = TagPost THEN { TagMaxp }
    ELSE {}

\* one decoder: it dereferences what it needs, then returns nil or an error
\* according to the bytes of its table
RunDecoder(t, next) ==
    IF ~ (Needs(t) \subseteq decoded)
    THEN /\ Return(Panic)
         /\ order' = Append(order, [table |-> t, ended |-> Panic])
         /\ UNCHANGED decoded
    ELSE \E ok \in BOOLEAN :
            IF ok
            THEN /\ decoded' = decoded \cup {t}
                 /\ order' = Append(order, [table |-> t, ended |-> "nil"])
                 /\ pc' = next
                 /\ UNCHANGED result
            ELSE /\ Return(ErrDecode)
                 /\ order' = Append(order, [table |-> t, ended |-> ErrDecode])
                 /\ UNCHANGED decoded

\* line 144
ParseHead ==
    /\ pc = "parseHead"
    /\ RunDecoder(TagHead, "parseMaxp")
    /\ UNCHANGED << tables, IsCFF, IsTrueType, tableNames >>
    /\ UNCHANGED notDec

\* line 146
ParseMaxp ==
    /\ pc = "parseMaxp"
    /\ RunDecoder(TagMaxp, "parseHhea")
    /\ UNCHANGED << tables, IsCFF, IsTrueType, tableNames >>
    /\ UNCHANGED notDec

\* lines 148-151
ParseHhea ==
    /\ pc = "parseHhea"
    /\ RunDecoder(TagHhea, IF IsTrueType THEN "parseLoca" ELSE "sort")
    /\ UNCHANGED << tables, IsCFF, IsTrueType, tableNames >>
    /\ UNCHANGED notDec

\* lines 151-155
ParseLoca ==
    /\ pc = "parseLoca"
    /\ RunDecoder(TagLoca, "sort")
    /\ UNCHANGED << tables, IsCFF, IsTrueType, tableNames >>
    /\ UNCHANGED notDec

\* sort.Strings: byte-wise lexicographic order
RECURSIVE StringLess(_, _)
StringLess(x, y) ==
    IF y = << >> THEN FALSE
    ELSE IF x = << >> THEN TRUE
    ELSE Head(x) < Head(y) \/ (Head(x) = Head(y) /\ StringLess(Tail(x), Tail(y)))

RECURSIVE SortStrings(_)
SortStrings(names) ==
    IF names = {} THEN << >>
    ELSE LET first == CHOOSE x \in names : \A y \in names \ {x} : StringLess(x, y)
         IN  << first >> \o SortStrings(names \ {first})

\* lines 157-161: len(tables) empty strings, then the names, sorted
SortTableNames ==
    /\ pc = "sort"
    /\ tableNames' = [k \in 1..Cardinality(DOMAIN tables) |-> << >>]
                        \o SortStrings(DOMAIN tables)
    /\ pc' = "tables"
    /\ UNCHANGED << tables, result, IsCFF, IsTrueType, decoded, order >>
    /\ UNCHANGED notDec

\* lines 164-183: the names the switch has a case for
SwitchCases == { TagCmap, TagGlyf, TagHmtx, TagKern, TagName, TagOS2, TagPost }

\* lines 162-187, one iteration of the loop
ParseNamedTable ==
    /\ pc = "tables"
    /\ tableNames # << >>
    /\ tableNames' = Tail(tableNames)
    /\ IF Head(tableNames) \in SwitchCases
       THEN RunDecoder(Head(tableNames), "tables")
       ELSE UNCHANGED << pc, result, decoded, order >>
    /\ UNCHANGED << tables, IsCFF, IsTrueType >>
    /\ UNCHANGED notDec

\* line 188
ReturnSFNT ==
    /\ pc = "tables"
    /\ tableNames = << >>
    /\ Return(FontReturned)
    /\ UNCHANGED << tables, IsCFF, IsTrueType, decoded, tableNames, order >>
    /\ UNCHANGED notDec

\* Font files with a full directory: every required table but at most one, and
\* any of glyf, loca, CFF, CFF2, kern. Each table is empty at the end of the
\* directory, except head, which holds 12 bytes.
DirectoryOrder ==
    << TagCFF, TagCFF2, TagOS2, TagCmap, TagGlyf, TagHead, TagHhea, TagHmtx, TagKern,
       TagLoca, TagMaxp, TagName, TagPost >>

OptionalChoices == SUBSET { TagGlyf, TagLoca, TagCFF, TagCFF2, TagKern }

TagSetChoices ==
    { (RequiredTables \ missing) \cup opt :
        missing \in {{}} \cup { {t} : t \in RequiredTables }, opt \in OptionalChoices }

FontRecords(tags) ==
    LET present == SelectSeq(DirectoryOrder, LAMBDA t : t \in tags)
        front   == 12 + 16 * Len(present)
    IN  [k \in 1..Len(present) |->
           [tag |-> present[k], offset |-> U32(front),
            length |-> IF present[k] = TagHead THEN U32(12) ELSE U32(0), good |-> TRUE]]

FontInputs ==
    { DirBuffer(ver, Cardinality(tags), FontRecords(tags)) :
        ver \in { OTTO, TrueType }, tags \in TagSetChoices }

DecodeInit ==
    /\ b \in FontInputs
    /\ input = b
    /\ pc = "start"
    /\ numTables = 0
    /\ i = 0
    /\ dir = << >>
    /\ checksumAdjustment = U32(0)
    /\ tables = NoTables
    /\ result = ""
    /\ run = 1
    /\ accepted = << >>
    /\ changed = -1
    /\ DecIdle
    /\ CmapIdle
    /\ TblIdle

DecodeNext ==
    \/ ParseHeader
    \/ ParseRecord
    \/ CheckRequiredTables
    \/ ParseHead
    \/ ParseMaxp
    \/ ParseHhea
    \/ ParseLoca
    \/ SortTableNames
    \/ ParseNamedTable
    \/ ReturnSFNT

SpecDecode == DecodeInit /\ [][DecodeNext]_vars

\* ------------------------------------------------------------------------
\* Claims about the required tables and the order of the decoders
\* ------------------------------------------------------------------------

\* the decoders that run before the sorted loop
Foundation ==
    IF IsTrueType THEN << TagHead, TagMaxp, TagHhea, TagLoca >>
    ELSE << TagHead, TagMaxp, TagHhea >>

\* head, maxp, hhea, loca (TrueType only) run first and in that order, the others
\* only after them, no decoder runs after one that failed, and no font is
\* returned after a failure
C4_Sequence ==
    /\ \A k \in 1..Len(order) :
          /\ k <= Len(Foundation) => order[k].table = Foundation[k]
          /\ k > Len(Foundation) => order[k].table \in SwitchCases
          /\ k < Len(order) => order[k].ended = "nil"
    /\ result = FontReturned => \A k \in 1..Len(order) : order[k].ended = "nil"

\* the glyf decoder starts only after the loca decoder has completed
C4_GlyfAfterLoca ==
    \A k \in 1..Len(order) :
        order[k].table = TagGlyf =>
            \E h \in 1..(k - 1) : order[h].table = TagLoca /\ order[h].ended = "nil"

\* C4: the decoders run in the order head, maxp, hhea, loca (TrueType only), then
\* the others; glyf is never decoded before loca; after the first decoder error
\* no further decoder runs and no font is returned.
C4_DecoderOrder == C4_Sequence /\ C4_GlyfAfterLoca

DirectoryTags == { dir[k].tag : k \in 1..Len(dir) }

\* the directory holds every table the flavor of the file requires
Complete ==
    /\ { TagCmap, TagHead, TagHhea, TagHmtx, TagMaxp, TagName, TagOS2, TagPost }
          \subseteq DirectoryTags
    /\ Slice(input, 0, 4) = TrueType => { TagGlyf, TagLoca } \subseteq DirectoryTags
    /\ Slice(input, 0, 4) = OTTO => (TagCFF \in DirectoryTags) # (TagCFF2 \in DirectoryTags)

\* what the header and the directory loop return
DirectoryErrors == { ErrInvalidFontData, ErrBadVersion, ErrBadChecksum, Panic }

\* C5: a font is returned only for a complete directory; for an incomplete one
\* ParseSFNT returns a missing-table or CFF conflict error (when the directory
\* itself was accepted) and no decoder ever starts; a returned font has exactly
\* one of IsCFF and IsTrueType set.
C5_RequiredTables ==
    /\ result = FontReturned => (Complete /\ IsCFF # IsTrueType)
    /\ order # << >> => Complete
    /\ (pc = "done" /\ ~ Complete /\ result \notin DirectoryErrors) =>
          result \in { ErrMissingTable, ErrMissingCFF, ErrBothCFF }

\* an OpenType font with one CFF table and a kern table was returned
C5_Witness ==
    /\ result = FontReturned
    /\ IsCFF
    /\ TagKern \in decoded
    /\ Complete

\* ------------------------------------------------------------------------
\* cmap subtables: decoding (lines 356-490) and lookup (lines 193-261)
\* ------------------------------------------------------------------------

MaxCmapSegments == 20000

Nil                 == "nil"
ErrCmapBadTable     == "cmap: bad table"
ErrCmapBadVersion   == "cmap: bad version"
ErrBadSubtable      == "cmap: bad subtable"
ErrBadFormat        == "cmap: bad format"
ErrBadSegCount      == "cmap: bad segCount"
ErrTooManySegments  == "cmap: too many segments"
ErrBadEndCode       == "cmap: bad endCode"
ErrBadStartCode     == "cmap: bad startCode"
ErrBadIdRangeOffset == "cmap: bad idRangeOffset"
ErrBadGlyphID       == "cmap: bad glyphID"
ErrBadCharCodeRange == "cmap: bad character code range"

Min(S) == CHOOSE x \in S : \A y \in S : x <= y

\* what the decoding of one subtable yields
Fail(e)    == [err |-> e]
Decoded(s) == [err |-> Nil, subtable |-> s]

\* In the decoders buf is rs.buf, the subtable's bytes cut to its declared
\* length; the format and length fields (4 bytes, 8 for format 12) are consumed.

\* lines 357-370
parseFormat0(buf, numGlyphs) ==
    LET GlyphIdArray == [k \in 1..256 |-> ReadUint8(buf, 6 + (k - 1))]
    IN  IF Len(buf) - 4 # 258 THEN Fail(ErrBadSubtable)
        ELSE IF \E k \in 1..256 : numGlyphs <= GlyphIdArray[k] THEN Fail(ErrBadGlyphID)
        ELSE Decoded([format |-> 0, GlyphIdArray |-> GlyphIdArray])

\* line 405, for the segment at 0-based index k - 1: the start code lies above
\* the segment's end code or not above the end code of the segment before
BadStartCodeAboveEndOnly(EndCode, k, startCode) == EndCode[k] < startCode

BadStartCode(EndCode, k, startCode) ==
    \/ EndCode[k] < startCode
    \/ (1 < k /\ startCode <= EndCode[k - 1])

\* lines 371-442
parseFormat4(buf, numGlyphs) ==
    LET segCountX2 == ReadUint16(buf, 6)
        segCount   == segCountX2 \div 2
        EndCode    == [k \in 1..segCount |-> ReadUint16(buf, 14 + 2 * (k - 1))]
        StartCode  == [k \in 1..segCount |-> ReadUint16(buf, 16 + 2 * segCount + 2 * (k - 1))]
        IdDelta    == [k \in 1..segCount |-> ReadInt16(buf, 16 + 4 * segCount + 2 * (k - 1))]
        \* line 415: rs.Len() - 2*segCount, after the three arrays were read
        glyphBytes == (Len(buf) - (16 + 6 * segCount)) - 2 * segCount
        glyphIdArrayLength == glyphBytes \div 2
        IdRangeOffset == [k \in 1..segCount |-> ReadUint16(buf, 16 + 6 * segCount + 2 * (k - 1))]
        \* line 427, for the segment at 0-based index k - 1
        index(k)   == IdRangeOffset[k] \div 2 + Sub16(EndCode[k], StartCode[k])
                        - (segCount - (k - 1))
        GlyphIdArray == [k \in 1..glyphIdArrayLength |->
                           ReadUint16(buf, 16 + 8 * segCount + 2 * (k - 1))]
    IN  IF Len(buf) - 4 < 10 THEN Fail(ErrBadSubtable)
        ELSE IF segCountX2 % 2 # 0 THEN Fail(ErrBadSegCount)
        ELSE IF MaxCmapSegments < segCount THEN Fail(ErrTooManySegments)
        ELSE IF Len(buf) - 14 < 2 + 8 * segCount THEN Fail(ErrBadSubtable)
        ELSE IF \E k \in 2..segCount : EndCode[k] <= EndCode[k - 1] THEN Fail(ErrBadEndCode)
        ELSE IF \E k \in 1..segCount : BadStartCode(EndCode, k, StartCode[k])
             THEN Fail(ErrBadStartCode)
        ELSE IF glyphBytes % 2 # 0 THEN Fail(ErrBadSubtable)
        ELSE IF \E k \in 1..segCount :
                   \/ IdRangeOffset[k] % 2 # 0
                   \/ (IdRangeOffset[k] # 0 /\ (index(k) < 0 \/ glyphIdArrayLength <= index(k)))
             THEN Fail(ErrBadIdRangeOffset)
        ELSE IF \E k \in 1..glyphIdArrayLength : numGlyphs <= GlyphIdArray[k]
             THEN Fail(ErrBadGlyphID)
        ELSE Decoded([format |-> 4, StartCode |-> StartCode, EndCode |-> EndCode,
                      IdDelta |-> IdDelta, IdRangeOffset |-> IdRangeOffset,
                      GlyphIdArray |-> GlyphIdArray])

\* lines 443-459
parseFormat6(buf) ==
    LET FirstCode  == ReadUint16(buf, 6)
        entryCount == ReadUint16(buf, 8)
    IN  IF Len(buf) - 4 < 6 THEN Fail(ErrBadSubtable)
        ELSE IF Len(buf) - 10 < 2 * entryCount THEN Fail(ErrBadSubtable)
        ELSE Decoded([format |-> 6, FirstCode |-> FirstCode,
                      GlyphIdArray |-> [k \in 1..entryCount |->
                                          ReadUint16(buf, 10 + 2 * (k - 1))]])

\* lines 460-489
parseFormat12(buf, numGlyphs) ==
    LET numGroups == ReadUint32(buf, 12)
        n         == ToInt(numGroups)
        StartCharCode == [k \in 1..n |-> ReadUint32(buf, 16 + 12 * (k - 1))]
        EndCharCode   == [k \in 1..n |-> ReadUint32(buf, 20 + 12 * (k - 1))]
        StartGlyphID  == [k \in 1..n |-> ReadUint32(buf, 24 + 12 * (k - 1))]
        span(k)     == Sub32(EndCharCode[k], StartCharCode[k])
        \* line 480
        badRange(k) == \/ Lt32(EndCharCode[k], StartCharCode[k])
                       \/ (1 < k /\ Le32(StartCharCode[k], EndCharCode[k - 1]))
        \* line 482
        badGlyph(k) == \/ Le32(U32(numGlyphs), span(k))
                       \/ Le32(Sub32(U32(numGlyphs), span(k)), StartGlyphID[k])
        bad         == { k \in 1..n : badRange(k) \/ badGlyph(k) }
    IN  IF Len(buf) - 8 < 8 THEN Fail(ErrBadSubtable)
        ELSE IF Lt32(U32(MaxCmapSegments), numGroups) THEN Fail(ErrTooManySegments)
        ELSE IF Len(buf) - 16 < 12 * n THEN Fail(ErrBadSubtable)
        ELSE IF bad # {}
             THEN IF badRange(Min(bad)) THEN Fail(ErrBadCharCodeRange) ELSE Fail(ErrBadGlyphID)
        ELSE Decoded([format |-> 12, StartCharCode |-> StartCharCode,
                      EndCharCode |-> EndCharCode, StartGlyphID |-> StartGlyphID])

\* what Get of a subtable yields: (glyphID, ok), or an index out of range
NotFound   == [ok |-> FALSE, glyphID |-> 0, panic |-> FALSE]
Found(g)   == [ok |-> TRUE, glyphID |-> g, panic |-> FALSE]
IndexPanic == [ok |-> FALSE, glyphID |-> 0, panic |-> TRUE]

\* lines 197-202
cmapFormat0Get(subtable, r) ==
    IF r < 0 \/ 256 <= r THEN NotFound ELSE Found(subtable.GlyphIdArray[r + 1])

\* line 226, for the segment at 0-based index k - 1 of n
LookupIndex(subtable, k, c) ==
    subtable.IdRangeOffset[k] \div 2 + Sub16(c, subtable.StartCode[k])
        - (Len(subtable.StartCode) - (k - 1))

\* lines 212-231, with the glyph ID of line 221 taken to be the code point
cmapFormat4GetNoDelta(subtable, r) ==
    LET n    == Len(subtable.StartCode)
        hits == { k \in 1..n : r <= subtable.EndCode[k] /\ subtable.StartCode[k] <= r }
    IN  IF r < 0 \/ 65536 <= r \/ hits = {} THEN NotFound
        ELSE LET k     == Min(hits)
                 index == LookupIndex(subtable, k, r)
             IN  IF subtable.IdRangeOffset[k] = 0
                 THEN Found(r)
                 ELSE IF index < 0 \/ Len(subtable.GlyphIdArray) <= index THEN IndexPanic
                 ELSE Found(subtable.GlyphIdArray[index + 1])

\* lines 212-231
cmapFormat4Get(subtable, r) ==
    LET n    == Len(subtable.StartCode)
        hits == { k \in 1..n : r <= subtable.EndCode[k] /\ subtable.StartCode[k] <= r }
    IN  IF r < 0 \/ 65536 <= r \/ hits = {} THEN NotFound
        ELSE LET k     == Min(hits)
                 index == LookupIndex(subtable, k, r)
             IN  IF subtable.IdRangeOffset[k] = 0
                 THEN Found(Add16((subtable.IdDelta[k] + Pow16) % Pow16, r))
                 ELSE IF index < 0 \/ Len(subtable.GlyphIdArray) <= index THEN IndexPanic
                 ELSE Found(subtable.GlyphIdArray[index + 1])

\* lines 238-243
cmapFormat6Get(subtable, r) ==
    IF r < subtable.FirstCode \/ Len(subtable.GlyphIdArray) <= r - subtable.FirstCode
    THEN NotFound
    ELSE Found(subtable.GlyphIdArray[r - subtable.FirstCode + 1])

\* lines 251-261
cmapFormat12Get(subtable, r) ==
    LET hits == { k \in 1..Len(subtable.StartCharCode) :
                    /\ Le32(U32(r), subtable.EndCharCode[k])
                    /\ Le32(subtable.StartCharCode[k], U32(r)) }
    IN  IF r < 0 \/ hits = {} THEN NotFound
        ELSE LET k == Min(hits)
             IN  Found(Add32(Sub32(U32(r), subtable.StartCharCode[k]),
                             subtable.StartGlyphID[k])[2])

\* the Get of the subtable's format
SubtableGet(subtable, r) ==
    CASE subtable.format = 0  -> cmapFormat0Get(subtable, r)
      [] subtable.format = 4  -> cmapFormat4Get(subtable, r)
      [] subtable.format = 6  -> cmapFormat6Get(subtable, r)
      [] subtable.format = 12 -> cmapFormat12Get(subtable, r)

\* lines 279-286: the first subtable that maps r, else glyph 0
RECURSIVE cmapTableGet(_, _)
cmapTableGet(subtables, r) ==
    IF subtables = << >> THEN [glyphID |-> 0, panic |-> FALSE]
    ELSE LET g == SubtableGet(Head(subtables), r)
         IN  IF g.panic THEN [glyphID |-> 0, panic |-> TRUE]
             ELSE IF g.ok THEN [glyphID |-> g.glyphID, panic |-> FALSE]
             ELSE cmapTableGet(Tail(subtables), r)

\* the runes looked up
RuneChoices == { -1, 0, 10, 11, 20, 65, 66, 67, 256, 65536 }

\* ------------------------------------------------------------------------
\* parseCmap (lines 288-500) and GlyphIndex (lines 43-45)
\* ------------------------------------------------------------------------

\* lines 290-308; ParseSFNT calls parseCmap only when the table is present
ParseCmapHeader ==
    /\ pc = "parseCmap"
    /\ LET n == ReadUint16(b, 2)
           front == Add32(U32(4), Mul32(8, U32(n)))
       IN  IF Len(b) < 4
           THEN Return(ErrCmapBadTable) /\ UNCHANGED << numTables, offsets, lengths >>
           ELSE IF ReadUint16(b, 0) # 0
           THEN Return(ErrCmapBadVersion) /\ UNCHANGED << numTables, offsets, lengths >>
           ELSE IF Lt32(U32(Len(b)), front)
           THEN /\ Return(ErrCmapBadTable)
                /\ numTables' = n
                /\ UNCHANGED << offsets, lengths >>
           ELSE /\ pc' = "subtables"
                /\ numTables' = n
                /\ offsets' = << U32(0) >>
                /\ lengths' = << front >>
                /\ UNCHANGED result
    /\ j' = 0
    /\ Cmap' = [EncodingRecords |-> << >>, Subtables |-> << >>]
    /\ UNCHANGED << b, NumGlyphs, rs, lookups >>
    /\ UNCHANGED notCmap

\* lines 328-337: the length field of a subtable of a known format
HasLength(format) == format \in { 0, 2, 4, 6, 8, 10, 12, 13, 14 }

SubtableLength(sub, format) ==
    IF format \in { 0, 2, 4, 6 } THEN U32(ReadUint16(sub, 2))
    ELSE IF format \in { 8, 10, 12, 13 } THEN ReadUint32(sub, 4)
    ELSE ReadUint32(sub, 2)

\* lines 318-322: the subtable starts inside an area found before
StartsInside(offs, lens, offset) ==
    \E k \in 1..Len(offs) : Lt32(offs[k], offset) /\ Lt32(offset, lens[k])

\* line 342: the area at k is this very subtable
SameSubtable(offs, lens, k, offset, length) == offset = offs[k] /\ length = lens[k]

\* line 345: the area at k starts inside this subtable
Reaches(offs, k, offset, length) ==
    Le32(offset, offs[k]) /\ Lt32(offs[k], Add32(offset, length))

\* lines 356-490: the switch on the format; other formats decode nothing
DecodeSubtable(buf, format, numGlyphs) ==
    CASE format = 0  -> parseFormat0(buf, numGlyphs)
      [] format = 4  -> parseFormat4(buf, numGlyphs)
      [] format = 6  -> parseFormat6(buf)
      [] format = 12 -> parseFormat12(buf, numGlyphs)
      [] OTHER       -> [err |-> Nil]

\* the record appended at lines 492-497
EncodingRecord(platformID, encodingID, format, subtableID) ==
    [PlatformID |-> platformID, EncodingID |-> encodingID, Format |-> format,
     Subtable |-> subtableID]

\* lines 309-498, one iteration of the loop over the encoding records
ParseEncodingRecord ==
    /\ pc = "subtables"
    /\ j < numTables
    /\ LET platformID == ReadUint16(b, 4 + 8 * j)
           encodingID == ReadUint16(b, 6 + 8 * j)
           offset     == ReadUint32(b, 8 + 8 * j)
           \* b[offset:]
           sub        == Slice(b, ToInt(offset), Len(b))
           format     == ReadUint16(sub, 0)
           length     == SubtableLength(sub, format)
           \* lines 341-348: the first area that is this subtable or is reached by it
           found      == { k \in 1..Len(offsets) :
                             \/ SameSubtable(offsets, lengths, k, offset, length)
                             \/ Reaches(offsets, k, offset, length) }
           isSame     == found # {} /\ SameSubtable(offsets, lengths, Min(found), offset, length)
           \* rs.buf[:length:length]
           buf        == Slice(sub, 0, ToInt(length))
           d          == DecodeSubtable(buf, format, NumGlyphs)
           stop(e)    == /\ Return(e)
                         /\ UNCHANGED << j, offsets, lengths, Cmap >>
       IN  IF Lt32(Sub32(U32(Len(b)), U32(8)), offset)
           THEN stop(ErrBadSubtable) /\ rs' = [NoHeader EXCEPT !.offset = offset]
           ELSE IF StartsInside(offsets, lengths, offset)
           THEN stop(ErrBadSubtable) /\ rs' = [NoHeader EXCEPT !.offset = offset]
           ELSE IF ~ HasLength(format)
           THEN /\ stop(ErrBadFormat)
                /\ rs' = [NoHeader EXCEPT !.offset = offset, !.format = format]
           ELSE /\ rs' = [offset |-> offset, format |-> format, length |-> length,
                          extracted |-> TRUE]
                /\ IF Lt32(length, U32(8)) \/ Lt32(Sub32(MaxUint32, offset), length)
                   THEN stop(ErrBadSubtable)
                   ELSE IF found # {} /\ ~ isSame
                   THEN stop(ErrBadSubtable)
                   ELSE IF ~ SliceOK(U32(0), length, Len(sub))
                   THEN stop(Panic)
                   ELSE IF isSame
                   THEN /\ Cmap' = [Cmap EXCEPT !.EncodingRecords =
                                      Append(@, EncodingRecord(platformID, encodingID, format,
                                                               Min(found) - 1))]
                        /\ j' = j + 1
                        /\ UNCHANGED << pc, result, offsets, lengths >>
                   ELSE /\ offsets' = Append(offsets, offset)
                        /\ lengths' = Append(lengths, length)
                        /\ IF d.err # Nil
                           THEN Return(d.err) /\ UNCHANGED << j, Cmap >>
                           ELSE /\ Cmap' =
                                     [EncodingRecords |->
                                        Append(Cmap.EncodingRecords,
                                               EncodingRecord(platformID, encodingID, format,
                                                              Len(Cmap.Subtables))),
                                      Subtables |->
                                        IF format \in { 0, 4, 6, 12 }
                                        THEN Append(Cmap.Subtables, d.subtable)
                                        ELSE Cmap.Subtables]
                                /\ j' = j + 1
                                /\ UNCHANGED << pc, result >>
    /\ UNCHANGED << b, numTables, NumGlyphs, lookups >>
    /\ UNCHANGED notCmap

\* line 499
ParseCmapReturn ==
    /\ pc = "subtables"
    /\ j = numTables
    /\ Return(Nil)
    /\ UNCHANGED << b, numTables, cmapVars >>
    /\ UNCHANGED notCmap

\* lines 43-45 and 279-286: one lookup in the decoded table
GlyphIndex ==
    /\ pc = "done"
    /\ result = Nil
    /\ lookups = << >>
    /\ \E r \in RuneChoices :
          LET g == cmapTableGet(Cmap.Subtables, r)
          IN  lookups' = << [r |-> r, glyphID |-> g.glyphID, panic |-> g.panic] >>
    /\ UNCHANGED << b, pc, numTables, result, NumGlyphs, j, offsets, lengths, Cmap, rs >>
    /\ UNCHANGED notCmap

\* ------------------------------------------------------------------------
\* The cmap tables parseCmap is called with
\* ------------------------------------------------------------------------

NumGlyphsChoices == { 1, 3 }

\* 16-bit words as big-endian bytes
Words(ws) == Flatten([k \in 1..Len(ws) |-> BE16(ws[k])])

\* a format 0 subtable that maps code 65 to glyph g and every other code to 0
Format0(g) ==
    Words(<< 0, 262, 0 >>) \o [k \in 1..256 |-> IF k - 1 = 65 THEN g ELSE 0]

\* a format 4 subtable of the segments segs (start, end, delta, range) and the
\* glyph-index array ids
Format4(segs, ids) ==
    LET n == Len(segs)
    IN  Words(<< 4, 16 + 8 * n + 2 * Len(ids), 0, 2 * n, 0, 0, 0 >>
              \o [k \in 1..n |-> segs[k][2]] \o << 0 >>
              \o [k \in 1..n |-> segs[k][1]]
              \o [k \in 1..n |-> (segs[k][3] + Pow16) % Pow16]
              \o [k \in 1..n |-> segs[k][4]]
              \o ids)

\* a format 6 subtable that declares the length declared
Format6(declared, firstCode, ids) ==
    Words(<< 6, declared, 0, firstCode, Len(ids) >> \o ids)

\* a format 12 subtable of the groups (start, end, glyph)
Format12(groups) ==
    LET n == Len(groups)
    IN  Words(<< 12, 0 >>) \o BE32(U32(16 + 12 * n)) \o BE32(U32(0)) \o BE32(U32(n))
        \o Flatten([k \in 1..n |-> BE32(U32(groups[k][1])) \o BE32(U32(groups[k][2]))
                                     \o BE32(U32(groups[k][3]))])

Format4Choices ==
    { Format4(<< << 65, 65, 29, 0 >>, << 66, 66, 29, 0 >> >>, << >>),
      Format4(<< << 65, 66, -64, 0 >> >>, << >>),
      Format4(<< << 10, 11, 0, 4 >>, << 20, 20, -20, 0 >> >>, << 1, 2 >>),
      Format4(<< << 10, 11, 0, 2 >>, << 20, 20, -20, 0 >> >>, << 1 >>),
      Format4(<< << 10, 11, 0, 4 >>, << 20, 20, -20, 0 >> >>, << 1, 7 >>),
      Format4(<< << 10, 11, 0, 8 >>, << 20, 20, -20, 0 >> >>, << 1, 2 >>),
      Format4(<< << 10, 11, 0, 3 >> >>, << 1, 2 >>),
      Format4(<< << 10, 11, 0, 0 >>, << 11, 12, 0, 0 >> >>, << >>),
      Format4(<< << 10, 11, 0, 0 >>, << 20, 11, 0, 0 >> >>, << >>),
      Words(<< 4, 12, 0, 2, 0, 0 >>),
      Words(<< 4, 16, 0, 3, 0, 0, 0, 0 >>),
      Words(<< 4, 16, 0, 65534, 0, 0, 0, 0 >>),
      Words(<< 4, 16, 0, 2, 0, 0, 0, 0 >>),
      Format4(<< << 10, 11, 0, 0 >> >>, << >>) \o << 0 >> }

Format6Choices ==
    { Format6(10, 65, << >>),
      Format6(12, 65, << 1 >>),
      Format6(14, 65, << 1, 2 >>),
      Format6(12, 65, << 5 >>),
      Format6(100, 65, << 1 >>),
      Format6(10, 65, << 1 >>),
      Format6(20, 65, << 6, 10, 0, 66, 0 >>),
      Words(<< 6, 4, 0, 0 >>),
      Words(<< 6, 8, 0, 0 >>) }

Format12Choices ==
    { Format12(<< << 65, 66, 1 >> >>),
      Format12(<< << 65, 66, 2 >> >>),
      Format12(<< << 65, 65, 0 >>, << 66, 67, 0 >> >>),
      Format12(<< << 66, 65, 0 >> >>),
      Format12(<< << 65, 66, 0 >>, << 66, 67, 0 >> >>),
      Words(<< 12, 0 >>) \o BE32(U32(16)) \o BE32(U32(0)) \o BE32(U32(20001)),
      Words(<< 12, 0 >>) \o BE32(U32(16)) \o BE32(U32(0)) \o BE32(U32(1)),
      Words(<< 12, 0 >>) \o BE32(U32(8)),
      Words(<< 12, 0 >>) \o BE32(MaxUint32) }

OtherChoices ==
    { Format0(0), Format0(2), Words(<< 0, 8, 0, 0 >>), Words(<< 2, 8, 0, 0 >>),
      Words(<< 14 >>) \o BE32(U32(10)) \o Words(<< 0, 0 >>), Words(<< 3, 8, 0, 0 >>) }

SubtableChoices == Format4Choices \cup Format6Choices \cup Format12Choices \cup OtherChoices

\* the subtable that follows the first one in a table of two
SecondChoices ==
    { Format6(12, 65, << 1 >>),
      Format4(<< << 65, 66, -64, 0 >> >>, << >>),
      Format12(<< << 65, 66, 1 >> >>),
      Words(<< 2, 8, 0, 0 >>) }

\* where an encoding record points: the table's start, into the records, at a
\* subtable, inside the first subtable, too near the table's end, far beyond it
CmapOffsetChoices(front, first, total) ==
    { U32(0), U32(4), U32(front), U32(front + 10), U32(front + first),
      U32(total - 4), << 65535, 65530 >> }

\* a cmap table: version, record count, encoding records, subtables
CmapEncode(version, recs, body) ==
    Words(<< version, Len(recs) >>)
        \o Flatten([k \in 1..Len(recs) |-> Words(<< 3, 1 >>) \o BE32(recs[k])])
        \o body

CmapTwoTables ==
    UNION { { CmapEncode(0, << o1, o2 >>, s1 \o s2) :
                o1, o2 \in CmapOffsetChoices(20, Len(s1), 20 + Len(s1) + Len(s2)) } :
            s1 \in SubtableChoices, s2 \in SecondChoices }

CmapOneTable ==
    UNION { { CmapEncode(0, << o1 >>, s1) :
                o1 \in CmapOffsetChoices(12, Len(s1), 12 + Len(s1)) } :
            s1 \in SubtableChoices }

\* tables of one and two subtables, a table without records, a bad version, a
\* record count that exceeds the table, and a table shorter than its header
CmapInputs ==
    CmapOneTable \cup CmapTwoTables
    \cup { CmapEncode(0, << >>, << >>),
           CmapEncode(1, << U32(12) >>, Format6(10, 65, << >>)),
           Words(<< 0, 3 >>) \o Format6(10, 65, << >>),
           << 0, 0, 0 >> }

CmapInit ==
    /\ b \in CmapInputs
    /\ input = b
    /\ pc = "parseCmap"
    /\ numTables = 0
    /\ i = 0
    /\ dir = << >>
    /\ checksumAdjustment = U32(0)
    /\ tables = NoTables
    /\ result = ""
    /\ run = 1
    /\ accepted = << >>
    /\ changed = -1
    /\ DecIdle
    /\ NumGlyphs \in NumGlyphsChoices
    /\ j = 0
    /\ offsets = << >>
    /\ lengths = << >>
    /\ Cmap = [EncodingRecords |-> << >>, Subtables |-> << >>]
    /\ rs = NoHeader
    /\ lookups = << >>
    /\ TblIdle

CmapNext ==
    \/ ParseCmapHeader
    \/ ParseEncodingRecord
    \/ ParseCmapReturn
    \/ GlyphIndex

SpecCmap == CmapInit /\ [][CmapNext]_vars

\* ------------------------------------------------------------------------
\* Claims about the character map
\* ------------------------------------------------------------------------

\* the decoded subtables, by 1-based position
DecodedSubtables == 1..Len(Cmap.Subtables)

\* C7: after a successful decode every glyph ID that a decoded subtable of
\* format 0, 4, 6 or 12 returns for a code point it maps is below numGlyphs,
\* and so is every GlyphIndex(r).
C7_GlyphIDsBelowNumGlyphs ==
    result = Nil =>
        /\ \A k \in DecodedSubtables, r \in RuneChoices :
              LET g == SubtableGet(Cmap.Subtables[k], r)
              IN  g.ok => g.glyphID < NumGlyphs
        /\ \A k \in 1..Len(lookups) : ~ lookups[k].panic => lookups[k].glyphID < NumGlyphs

\* C8: in every accepted format 4 subtable, for every segment with a non-zero
\* idRangeOffset and every code point c of the segment, the lookup index lies
\* inside the glyph-index array.
C8_LookupIndexInRange ==
    result = Nil =>
        \A k \in DecodedSubtables :
            LET s == Cmap.Subtables[k]
            IN  s.format = 4 =>
                  \A g \in 1..Len(s.StartCode) :
                      s.IdRangeOffset[g] # 0 =>
                         \A c \in s.StartCode[g]..s.EndCode[g] :
                             /\ 0 <= LookupIndex(s, g, c)
                             /\ LookupIndex(s, g, c) < Len(s.GlyphIdArray)

\* the subtable whose header was read ends beyond the cmap table
BeyondTable ==
    /\ rs.extracted
    /\ Lt32(Sub32(U32(Len(b)), rs.offset), rs.length)

\* C9: when a subtable's offset plus the length declared in its header exceeds
\* the length of the cmap table, parseCmap returns a bad-subtable error.
C9_LengthBeyondTableRejected == BeyondTable => result = ErrBadSubtable

\* the byte ranges at positions g and h of offsets and lengths share a byte
AreasIntersect(g, h) ==
    /\ ToInt(offsets[g]) < ToInt(offsets[h]) + ToInt(lengths[h])
    /\ ToInt(offsets[h]) < ToInt(offsets[g]) + ToInt(lengths[g])

\* C10: on success the header-and-records area and the byte ranges of the
\* distinct subtables are pairwise disjoint.
C10_SubtablesDisjoint ==
    result = Nil =>
        \A g, h \in 1..Len(offsets) : g # h => ~ AreasIntersect(g, h)

\* the decoded subtables that report a hit for r
Hits(r) == { k \in DecodedSubtables : SubtableGet(Cmap.Subtables[k], r).ok }

\* the glyph ID of the first subtable that reports a hit for r, else 0
FirstHit(r) == IF Hits(r) = {} THEN 0 ELSE SubtableGet(Cmap.Subtables[Min(Hits(r))], r).glyphID

\* a GlyphIndex call that returned gave the glyph ID of the first hit
C11_FirstHitReturned ==
    \A k \in 1..Len(lookups) :
        ~ lookups[k].panic => lookups[k].glyphID = FirstHit(lookups[k].r)

\* C11: GlyphIndex(r) returns the glyph ID of the first decoded subtable, in
\* the order of decoding, that reports a hit for r, and 0 when none does; it
\* never fails.
C11_GlyphIndexFirstHit ==
    /\ C11_FirstHitReturned
    /\ \A k \in 1..Len(lookups) : ~ lookups[k].panic

\* the segments of a format 4 subtable that contain the code point c
SegmentsOf(s, c) == { g \in 1..Len(s.StartCode) : s.StartCode[g] <= c /\ c <= s.EndCode[g] }

\* the decoded format 4 subtables
Format4Subtables == { k \in DecodedSubtables : Cmap.Subtables[k].format = 4 }

\* a format 4 lookup: a hit with (c + idDelta) mod 65536 in a segment with
\* idRangeOffset = 0, not mapped outside every segment and outside 0..65535
Format4Lookup ==
    \A k \in Format4Subtables, c \in RuneChoices :
        LET s == Cmap.Subtables[k]
        IN  /\ \A g \in SegmentsOf(s, c) :
                  s.IdRangeOffset[g] = 0 =>
                      SubtableGet(s, c) = Found((c + s.IdDelta[g]) % Pow16)
            /\ (SegmentsOf(s, c) = {} \/ c < 0 \/ c >= 65536) => SubtableGet(s, c) = NotFound

\* the decoded format 4 subtables with the segments (0x41, 0x41, 29, 0) and
\* (0x42, 0x42, 29, 0)
ScenarioB ==
    { k \in Format4Subtables :
        /\ Cmap.Subtables[k].StartCode = << 65, 66 >>
        /\ Cmap.Subtables[k].EndCode = << 65, 66 >>
        /\ Cmap.Subtables[k].IdDelta = << 29, 29 >>
        /\ Cmap.Subtables[k].IdRangeOffset = << 0, 0 >> }

\* C12 as stated: the format 4 lookup, and in the scenario 0x41 maps to 30 and
\* 0x43 is unmapped.
C12_Format4LookupScenario30 ==
    result = Nil =>
        /\ Format4Lookup
        /\ \A k \in ScenarioB :
              /\ SubtableGet(Cmap.Subtables[k], 65) = Found(30)
              /\ SubtableGet(Cmap.Subtables[k], 67) = NotFound

\* C12, amended: the format 4 lookup, and in the scenario 0x41 maps to
\* 0x41 + 29 = 94 and 0x43 is unmapped.
C12_Format4Lookup ==
    result = Nil =>
        /\ Format4Lookup
        /\ \A k \in ScenarioB :
              /\ SubtableGet(Cmap.Subtables[k], 65) = Found(94)
              /\ SubtableGet(Cmap.Subtables[k], 67) = NotFound

\* the scenario's subtable is the first one decoded and 'A' was looked up
C12_Witness ==
    /\ result = Nil
    /\ 1 \in ScenarioB
    /\ lookups # << >>
    /\ lookups[1].r = 65
    /\ lookups[1].glyphID = 94

\* the decoded format 12 subtables
Format12Subtables == { k \in DecodedSubtables : Cmap.Subtables[k].format = 12 }

\* C13: after a successful decode the segments of every format 4 subtable and
\* the groups of every format 12 subtable are non-empty ranges in strictly
\* increasing order, so a code point lies in at most one of them.
C13_SegmentsOrdered ==
    result = Nil =>
        /\ \A k \in Format4Subtables :
              LET s == Cmap.Subtables[k]
              IN  /\ \A g \in 1..Len(s.StartCode) :
                        /\ s.StartCode[g] <= s.EndCode[g]
                        /\ 1 < g => s.EndCode[g - 1] < s.StartCode[g]
                  /\ \A c \in RuneChoices : Cardinality(SegmentsOf(s, c)) <= 1
        /\ \A k \in Format12Subtables :
              LET s == Cmap.Subtables[k]
              IN  \A g \in 1..Len(s.StartCharCode) :
                      /\ Le32(s.StartCharCode[g], s.EndCharCode[g])
                      /\ 1 < g => Lt32(s.EndCharCode[g - 1], s.StartCharCode[g])

\* a table with a format 4 subtable of two segments and a format 12 subtable
\* was decoded
C13_Witness ==
    /\ result = Nil
    /\ \E k \in Format4Subtables : Len(Cmap.Subtables[k].StartCode) = 2
    /\ Format12Subtables # {}

\* ------------------------------------------------------------------------
\* loca and glyf: decoding (lines 750-764, 1046-1077) and outlines (555-748)
\* ------------------------------------------------------------------------

ErrLocaBadTable      == "loca: bad table"
ErrLocaBadOffsets    == "loca: bad offsets"
ErrGlyfMissing       == "glyf: missing table"
ErrGlyfTable         == "glyf: bad table"
ErrCFFNotSupported   == "CFF not supported"
ErrGlyfBadGlyphID    == "glyf: bad glyphID"
ErrGlyfBadTable      == "glyf: bad table for glyphID"
ErrGlyfBadFlags      == "glyf: bad table or flags for glyphID"
ErrGlyfTooDeep       == "glyf: compound glyphs too deeply nested"
ErrGlyfNotSupported  == "glyf: composite glyph not supported"

\* conversion to int16
Int16(v) == ((v + 32768) % Pow16) - 32768

\* the cursor reader's signed byte
ReadInt8(buf, p) == LET u == ReadUint8(buf, p) IN IF u >= 128 THEN u - 256 ELSE u

\* flags & mask != 0, for a mask of one bit
Bit(flags, mask) == (flags \div mask) % 2 = 1

\* lines 1053 and 1059: sfnt.Maxp.NumGlyphs+1 in uint16 arithmetic
LocaEntries(numGlyphs) == (numGlyphs + 1) % Pow16

\* The loca table is kept as the number of zero bytes it begins with and the
\* bytes after them: its length, its byte at p, and the cursor reader's
\* ReadUint16 and ReadUint32 at p
PaddedLen(t) == t.zeros + Len(t.bytes)
PaddedAt(t, p) == IF p < t.zeros THEN 0 ELSE t.bytes[p - t.zeros + 1]
PaddedUint16(t, p) ==
    IF p + 2 <= PaddedLen(t) THEN PaddedAt(t, p) * 256 + PaddedAt(t, p + 1) ELSE 0
PaddedUint32(t, p) ==
    IF p + 4 <= PaddedLen(t)
    THEN << PaddedAt(t, p) * 256 + PaddedAt(t, p + 1),
            PaddedAt(t, p + 2) * 256 + PaddedAt(t, p + 3) >>
    ELSE U32(0)

\* lines 1046-1077; bytes is sfnt.Tables["loca"]
parseLoca(bytes, numGlyphs, format) ==
    LET n       == LocaEntries(numGlyphs)
        Offsets == [k \in 1..n |->
                      IF format = 0 THEN U32(PaddedUint16(bytes, 2 * (k - 1)))
                      ELSE IF format = 1 THEN PaddedUint32(bytes, 4 * (k - 1))
                      ELSE U32(0)]
        \* 2*(uint32(NumGlyphs)+1) and 4*(uint32(NumGlyphs)+1)
        size    == IF format = 0 THEN 2 * (numGlyphs + 1) ELSE 4 * (numGlyphs + 1)
    IN  IF format \in { 0, 1 } /\ PaddedLen(bytes) # size
        THEN [err |-> ErrLocaBadTable, Offsets |-> << >>]
        ELSE IF \E k \in 2..n : Lt32(Offsets[k], Offsets[k - 1])
        THEN [err |-> ErrLocaBadOffsets, Offsets |-> << >>]
        ELSE [err |-> Nil, Offsets |-> Offsets]

\* lines 750-764; locaTable is sfnt.Loca (<< >> when nil)
parseGlyf(tbl, locaTable) ==
    IF "glyf" \notin DOMAIN tbl THEN ErrGlyfMissing
    ELSE IF locaTable = << >> THEN Panic
    ELSE IF Len(locaTable[1].Offsets) = 0 THEN Panic
    ELSE IF U32(Len(tbl["glyf"])) # locaTable[1].Offsets[Len(locaTable[1].Offsets)]
    THEN ErrGlyfTable
    ELSE Nil

\* lines 555-562: glyf.Get
glyfGet(data, Offsets, glyphID) ==
    IF Len(Offsets) <= glyphID + 1 THEN [nil |-> TRUE, panic |-> FALSE, bytes |-> << >>]
    ELSE LET start == Offsets[glyphID + 1]
             end   == Offsets[glyphID + 2]
         IN  IF ~ SliceOK(start, end, Len(data))
             THEN [nil |-> FALSE, panic |-> TRUE, bytes |-> << >>]
             ELSE [nil |-> FALSE, panic |-> FALSE,
                   bytes |-> Slice(data, ToInt(start), ToInt(end))]

\* a glyfContour without points
NoContour ==
    [GlyphID |-> 0, EndPoints |-> << >>, OnCurve |-> << >>, XCoordinates |-> << >>,
     YCoordinates |-> << >>]

\* what Contour returns: (contour, err), with the deepest level at which Contour
\* ran and the glyphs whose bytes were decoded
ContourFail(e, level, visited) ==
    [err |-> e, nil |-> TRUE, contour |-> NoContour, depth |-> level, visited |-> visited]

ContourOf(c, level, visited) ==
    [err |-> Nil, nil |-> FALSE, contour |-> c, depth |-> level, visited |-> visited]

\* lines 602-617: the flags of the points from 0-based index k on
RECURSIVE ReadFlags(_, _, _, _, _)
ReadFlags(buf, pos, k, numPoints, flags) ==
    IF k >= numPoints THEN [err |-> Nil, pos |-> pos, flags |-> flags]
    ELSE IF Len(buf) - pos < 1 THEN [err |-> ErrGlyfBadTable, pos |-> pos, flags |-> flags]
    ELSE LET f      == ReadUint8(buf, pos)
             isRep  == Bit(f, 8)
             repeat == IF isRep THEN ReadUint8(buf, pos + 1) ELSE 0
             next   == IF isRep /\ pos + 2 <= Len(buf) THEN pos + 2 ELSE pos + 1
         IN  IF 0 < repeat /\ numPoints <= k + repeat
             THEN [err |-> Panic, pos |-> pos, flags |-> flags]
             ELSE ReadFlags(buf, next, k + repeat + 1, numPoints,
                            [q \in 1..numPoints |->
                               IF k <= q - 1 /\ q - 1 <= k + repeat THEN f ELSE flags[q]])

\* lines 619-661: the coordinates of the points from 1-based index k on, v the
\* running coordinate; short and same are the flag bits of the axis
RECURSIVE ReadCoordinates(_, _, _, _, _, _, _, _)
ReadCoordinates(buf, pos, flags, k, v, short, same, coords) ==
    IF k > Len(flags) THEN [err |-> Nil, pos |-> pos, coords |-> coords]
    ELSE IF Bit(flags[k], short)
    THEN IF Len(buf) - pos < 1 THEN [err |-> ErrGlyfBadFlags, pos |-> pos, coords |-> coords]
         ELSE LET d == ReadUint8(buf, pos)
                  w == IF Bit(flags[k], same) THEN Int16(v + d) ELSE Int16(v - d)
              IN  ReadCoordinates(buf, pos + 1, flags, k + 1, w, short, same, Append(coords, w))
    ELSE IF ~ Bit(flags[k], same)
    THEN IF Len(buf) - pos < 2 THEN [err |-> ErrGlyfBadFlags, pos |-> pos, coords |-> coords]
         ELSE LET w == Int16(v + ReadInt16(buf, pos))
              IN  ReadCoordinates(buf, pos + 2, flags, k + 1, w, short, same, Append(coords, w))
    ELSE ReadCoordinates(buf, pos, flags, k + 1, v, short, same, Append(coords, v))

\* lines 585-662: a simple glyph of numberOfContours contours; the glyph header
\* (10 bytes) is consumed
SimpleGlyph(buf, glyphID, numberOfContours, level) ==
    LET EndPoints == [k \in 1..numberOfContours |-> ReadUint16(buf, 10 + 2 * (k - 1))]
        instructionLength == ReadUint16(buf, 10 + 2 * numberOfContours)
        numPoints == EndPoints[numberOfContours] + 1
        fl == ReadFlags(buf, 12 + 2 * numberOfContours + instructionLength, 0, numPoints,
                        [q \in 1..numPoints |-> 0])
        xs == ReadCoordinates(buf, fl.pos, fl.flags, 1, 0, 2, 16, << >>)
        ys == ReadCoordinates(buf, xs.pos, fl.flags, 1, 0, 4, 32, << >>)
    IN  IF Len(buf) - 10 < 2 * numberOfContours + 2
        THEN ContourFail(ErrGlyfBadTable, level, { glyphID })
        ELSE IF Len(buf) - (12 + 2 * numberOfContours) < instructionLength
        THEN ContourFail(ErrGlyfBadTable, level, { glyphID })
        ELSE IF numberOfContours = 0 THEN ContourFail(Panic, level, { glyphID })
        ELSE IF fl.err # Nil THEN ContourFail(fl.err, level, { glyphID })
        ELSE IF xs.err # Nil THEN ContourFail(xs.err, level, { glyphID })
        ELSE IF ys.err # Nil THEN ContourFail(ys.err, level, { glyphID })
        ELSE ContourOf([GlyphID |-> glyphID, EndPoints |-> EndPoints,
                        OnCurve |-> [q \in 1..numPoints |-> Bit(fl.flags[q], 1)],
                        XCoordinates |-> xs.coords, YCoordinates |-> ys.coords],
                       level, { glyphID })

\* lines 670-716: the component record at pos of a composite glyph
ReadComponent(buf, pos) ==
    LET flags      == ReadUint16(buf, pos)
        subGlyphID == ReadUint16(buf, pos + 2)
        words      == Bit(flags, 1)
        argEnd     == pos + 4 + (IF words THEN 4 ELSE 2)
        scale      == Bit(flags, 8)
        xyScale    == ~ scale /\ Bit(flags, 64)
        twoByTwo   == ~ scale /\ ~ xyScale /\ Bit(flags, 128)
        size       == IF scale THEN 2 ELSE IF xyScale THEN 4 ELSE IF twoByTwo THEN 8 ELSE 0
        txx        == IF size > 0 THEN ReadInt16(buf, argEnd) ELSE 0
        c == [err |-> Nil, flags |-> flags, subGlyphID |-> subGlyphID,
              dx  |-> IF words THEN ReadInt16(buf, pos + 4) ELSE ReadInt8(buf, pos + 4),
              dy  |-> IF words THEN ReadInt16(buf, pos + 6) ELSE ReadInt8(buf, pos + 5),
              txx |-> txx,
              txy |-> IF twoByTwo THEN ReadInt16(buf, argEnd + 2) ELSE 0,
              tyx |-> IF twoByTwo THEN ReadInt16(buf, argEnd + 4) ELSE 0,
              tyy |-> IF scale THEN txx
                      ELSE IF xyScale THEN ReadInt16(buf, argEnd + 2)
                      ELSE IF twoByTwo THEN ReadInt16(buf, argEnd + 6)
                      ELSE 0,
              pos |-> argEnd + size]
    IN  IF Len(buf) - pos < 4 THEN [c EXCEPT !.err = ErrGlyfBadTable]
        ELSE IF ~ Bit(flags, 2) THEN [c EXCEPT !.err = ErrGlyfNotSupported]
        ELSE IF Len(buf) - (pos + 4) < argEnd - (pos + 4) THEN [c EXCEPT !.err = ErrGlyfBadTable]
        ELSE IF Len(buf) - argEnd < size THEN [c EXCEPT !.err = ErrGlyfBadTable]
        ELSE c

\* lines 735-736: int16((int64(v)*int64(t)+half)>>14), without the half
Round14NoHalf(v, t) == Int16((v * t) \div 16384)

\* lines 735-736: int16((int64(v)*int64(t)+half)>>14)
Round14(v, t) == Int16((v * t + 8192) \div 16384)

\* lines 731-742: a point of the sub-glyph, transformed and translated
ComponentPoint(c, x, y) ==
    IF Bit(c.flags, 8) \/ Bit(c.flags, 64) \/ Bit(c.flags, 128)
    THEN << Int16(c.dx + Int16(Round14(x, c.txx) + Round14(y, c.tyx))),
            Int16(c.dy + Int16(Round14(x, c.txy) + Round14(y, c.tyy))) >>
    ELSE << Int16(c.dx + x), Int16(c.dy + y) >>

\* lines 723-743: the sub-glyph's contour appended to the composite's
AppendComponent(contour, c, subContour) ==
    LET numPoints == IF 0 < Len(contour.EndPoints)
                     THEN Add16(contour.EndPoints[Len(contour.EndPoints)], 1)
                     ELSE 0
        points    == [k \in 1..Len(subContour.XCoordinates) |->
                        ComponentPoint(c, subContour.XCoordinates[k],
                                       subContour.YCoordinates[k])]
    IN  [contour EXCEPT
           !.EndPoints = @ \o [k \in 1..Len(subContour.EndPoints) |->
                                 Add16(numPoints, subContour.EndPoints[k])],
           !.OnCurve = @ \o subContour.OnCurve,
           !.XCoordinates = @ \o [k \in 1..Len(points) |-> points[k][1]],
           !.YCoordinates = @ \o [k \in 1..Len(points) |-> points[k][2]]]

MaxOf(x, y) == IF x < y THEN y ELSE x

\* line 664, with the limit one level higher
TooDeeplyNestedAboveEight(level) == 8 < level

\* line 664: a composite glyph is not decoded at this level
TooDeeplyNested(level) == 7 < level

RECURSIVE Contour(_, _, _, _)
RECURSIVE Components(_, _, _, _, _, _, _, _)

\* lines 668-746: the components of a composite glyph from pos on
Components(data, Offsets, buf, pos, level, contour, depth, visited) ==
    LET c   == ReadComponent(buf, pos)
        sub == Contour(data, Offsets, c.subGlyphID, level + 1)
        d   == MaxOf(depth, sub.depth)
        v   == visited \cup sub.visited
    IN  IF c.err # Nil THEN ContourFail(c.err, depth, visited)
        ELSE IF sub.err # Nil THEN ContourFail(sub.err, d, v)
        ELSE IF sub.nil THEN ContourFail(Panic, d, v)
        ELSE LET merged == AppendComponent(contour, c, sub.contour)
             IN  IF Bit(c.flags, 32)
                 THEN Components(data, Offsets, buf, c.pos, level, merged, d, v)
                 ELSE ContourOf(merged, d, v)

\* lines 564-748: glyf.Contour(glyphID, level)
Contour(data, Offsets, glyphID, level) ==
    LET got == glyfGet(data, Offsets, glyphID)
        buf == got.bytes
        numberOfContours == ReadInt16(buf, 0)
    IN  IF got.panic THEN ContourFail(Panic, level, {})
        ELSE IF got.nil THEN ContourFail(ErrGlyfBadGlyphID, level, {})
        ELSE IF Len(buf) = 0 THEN [ContourFail(Nil, level, {}) EXCEPT !.nil = TRUE]
        ELSE IF Len(buf) < 10 THEN ContourFail(ErrGlyfBadTable, level, { glyphID })
        ELSE IF 0 <= numberOfContours THEN SimpleGlyph(buf, glyphID, numberOfContours, level)
        ELSE IF TooDeeplyNested(level) THEN ContourFail(ErrGlyfTooDeep, level, { glyphID })
        ELSE Components(data, Offsets, buf, 10, level,
                        [NoContour EXCEPT !.GlyphID = glyphID], level, { glyphID })

\* lines 51-56, without the check of the flavor
GlyphContourOfAnyFlavor(isTrueType, glyfTable, glyphID) ==
    IF glyfTable = << >> THEN ContourFail(Panic, 0, {})
    ELSE Contour(glyfTable[1].data, glyfTable[1].loca, glyphID, 0)

\* lines 51-56: SFNT.GlyphContour
GlyphContourOf(isTrueType, glyfTable, glyphID) ==
    IF ~ isTrueType THEN ContourFail(ErrCFFNotSupported, 0, {})
    ELSE IF glyfTable = << >> THEN ContourFail(Panic, 0, {})
    ELSE Contour(glyfTable[1].data, glyfTable[1].loca, glyphID, 0)

\* ------------------------------------------------------------------------
\* ParseSFNT's calls of parseLoca and parseGlyf, and GlyphContour
\* ------------------------------------------------------------------------

\* lines 151-155
ParseLocaTable ==
    /\ pc = "parseLoca"
    /\ IF IsTrueType
       THEN LET r == parseLoca(table["loca"], NumGlyphs, IndexToLocFormat)
            IN  IF r.err # Nil
                THEN Return(r.err) /\ UNCHANGED Loca
                ELSE /\ Loca' = << [Offsets |-> r.Offsets] >>
                     /\ pc' = "parseGlyf"
                     /\ UNCHANGED result
       ELSE /\ pc' = "parseGlyf"
            /\ UNCHANGED << result, Loca >>
    /\ UNCHANGED << IsTrueType, NumGlyphs, table, IndexToLocFormat, Glyf, Hhea, Hmtx, Kern,
                    calls >>
    /\ UNCHANGED notTbl

\* lines 171-172, for a font with or without a glyf table
ParseGlyfTable ==
    /\ pc = "parseGlyf"
    /\ IF "glyf" \in DOMAIN table
       THEN LET e == parseGlyf(table, Loca)
            IN  IF e # Nil
                THEN Return(e) /\ UNCHANGED Glyf
                ELSE /\ Glyf' = << [data |-> table["glyf"], loca |-> Loca[1].Offsets] >>
                     /\ pc' = "parsed"
                     /\ UNCHANGED result
       ELSE /\ pc' = "parsed"
            /\ UNCHANGED << result, Glyf >>
    /\ UNCHANGED << IsTrueType, NumGlyphs, table, IndexToLocFormat, Loca, Hhea, Hmtx, Kern,
                    calls >>
    /\ UNCHANGED notTbl

\* line 188
ReturnParsed ==
    /\ pc = "parsed"
    /\ Return(FontReturned)
    /\ UNCHANGED << IsTrueType, NumGlyphs, tblVars >>
    /\ UNCHANGED notTbl

\* the glyph IDs the accessors are called with
GlyphIDChoices == { 0, 1, 2, 3, 65535 }

\* lines 51-56: one call of GlyphContour on the returned font
GlyphContour ==
    /\ pc = "done"
    /\ result = FontReturned
    /\ calls = << >>
    /\ \E g \in GlyphIDChoices :
          calls' = << [fn |-> "GlyphContour", glyphID |-> g,
                       out |-> GlyphContourOf(IsTrueType, Glyf, g)] >>
    /\ UNCHANGED << pc, result, IsTrueType, NumGlyphs, table, IndexToLocFormat, Loca, Glyf,
                    Hhea, Hmtx, Kern >>
    /\ UNCHANGED notTbl

\* ------------------------------------------------------------------------
\* The glyf and loca tables ParseSFNT is called with
\* ------------------------------------------------------------------------

\* a glyph header: numberOfContours and the bounding box
GlyphHeader(n) == Words(<< (n + Pow16) % Pow16, 0, 0, 0, 0 >>)

\* a simple glyph without instructions
SimpleBytes(endPoints, flags, coordinates) ==
    GlyphHeader(Len(endPoints)) \o Words(endPoints) \o Words(<< 0 >>) \o flags \o coordinates

\* a composite glyph of the given component records
CompositeBytes(components) == GlyphHeader(-1) \o Flatten(components)

\* a component with byte arguments and the transform words ws
Component(flags, subGlyphID, dx, dy, ws) ==
    Words(<< flags, subGlyphID >>) \o << (dx + 256) % 256, (dy + 256) % 256 >>
        \o Words([k \in 1..Len(ws) |-> (ws[k] + Pow16) % Pow16])

\* three on-curve points with one-byte coordinates
Triangle == SimpleBytes(<< 2 >>, << 55, 55, 55 >>, << 1, 2, 3, 4, 5, 6 >>)

\* two contours of one point each, with two-byte coordinates 1, -3 and -1, 5
TwoPoints ==
    SimpleBytes(<< 0, 1 >>, << 1, 1 >>, Words(<< 1, 65532, 65535, 6 >>))

\* one flag repeated over three points
Repeated == SimpleBytes(<< 2 >>, << 63, 2 >>, << 1, 2, 3, 4, 5, 6 >>)

\* a repeat count that runs past the last point
RepeatedTooOften == SimpleBytes(<< 2 >>, << 63, 5 >>, << 1, 2, 3, 4, 5, 6 >>)

\* end points 1, 0
EndPointsDecreasing == SimpleBytes(<< 1, 0 >>, << 55 >>, << 1, 1 >>)

\* end points 1, 1
EndPointsRepeated == SimpleBytes(<< 1, 1 >>, << 55, 55 >>, << 1, 1, 1, 1 >>)

\* numberOfContours = 0
NoContours == SimpleBytes(<< >>, << >>, << >>)

SimpleChoices ==
    { << >>, Triangle, TwoPoints, Repeated, RepeatedTooOften, EndPointsDecreasing,
      EndPointsRepeated, NoContours, << 0, 1, 0 >>,
      SubSeq(Triangle, 1, 17) }

\* one component, without and with a transform; two components; a component
\* without ARGS_ARE_XY_VALUES; a truncated component
CompositeChoices ==
    { CompositeBytes(<< Component(2, g, 1, -2, << >>) >>) : g \in 0..2 }
    \cup { CompositeBytes(<< Component(10, 1, 0, 0, << 8192 >>) >>),
           CompositeBytes(<< Component(34, 0, 3, 4, << >>),
                             Component(130, 0, -1, 1, << 8192, 16384, -8192, 24576 >>) >>),
           CompositeBytes(<< Component(98, 0, 0, 0, << 8192, -16384 >>),
                             Component(2, 0, 5, 5, << >>) >>),
           CompositeBytes(<< Component(34, 0, 0, 0, << >>), Component(34, 0, 0, 0, << >>) >>)
               \o << 0, 2 >>,
           CompositeBytes(<< Words(<< 3, 1 >>) \o Words(<< 300, 65236 >>) >>),
           CompositeBytes(<< Component(0, 0, 0, 0, << >>) >>) }

GlyphChoices == SimpleChoices \cup CompositeChoices

\* the fonts: the glyphs with IDs 0, 1, ...
MaxGlyphs == 3

\* the glyphs with IDs 2 and above
LaterChoices == { << >>, Triangle, CompositeBytes(<< Component(2, 1, 1, -2, << >>) >>) }

\* glyphs 0 and 1 are any of GlyphChoices
GlyphLists ==
    UNION { { first \o later :
                first \in [1..(IF n < 2 THEN n ELSE 2) -> GlyphChoices],
                later \in [1..(IF n < 2 THEN 0 ELSE n - 2) -> LaterChoices] } :
            n \in 1..MaxGlyphs }

\* the offset of the glyph with ID k - 1, and the table's length for k = n + 1
RECURSIVE GlyphOffset(_, _)
GlyphOffset(glyphs, k) ==
    IF k = 1 THEN 0 ELSE GlyphOffset(glyphs, k - 1) + Len(glyphs[k - 1])

\* a loca table of the given offsets
LocaBytes(format, offs) ==
    Flatten([k \in 1..Len(offs) |-> IF format = 0 THEN BE16(offs[k]) ELSE BE32(U32(offs[k]))])

GlyphOffsets(glyphs) == [k \in 1..(Len(glyphs) + 1) |-> GlyphOffset(glyphs, k)]

\* a TrueType font of the glyphs with the loca table of the offsets offs
GlyfFont(format, numGlyphs, glyphs, offs) ==
    [isTrueType |-> TRUE, format |-> format, numGlyphs |-> numGlyphs,
     tbl |-> [t \in { "glyf", "loca" } |->
                IF t = "glyf" THEN Flatten(glyphs)
                ELSE [zeros |-> 0, bytes |-> LocaBytes(format, offs)]]]

\* a loca table that fits the glyphs; one whose last offset is not the length of
\* glyf; one whose offsets decrease; one with an entry too many; a glyph count
\* that is not the number of glyphs
LocaChoices(glyphs) ==
    LET good == GlyphOffsets(glyphs)
        n    == Len(glyphs)
    IN  { [numGlyphs |-> n, offs |-> good],
          [numGlyphs |-> n, offs |-> [good EXCEPT ![n + 1] = @ + 1]],
          [numGlyphs |-> n, offs |-> [good EXCEPT ![1] = 4]],
          [numGlyphs |-> n, offs |-> Append(good, good[n + 1])],
          [numGlyphs |-> n + 1, offs |-> good] }

\* a font of 65535 glyphs without outlines
AllEmpty ==
    [isTrueType |-> TRUE, format |-> 0, numGlyphs |-> 65535,
     tbl |-> [t \in { "glyf", "loca" } |->
                IF t = "glyf" THEN << >> ELSE [zeros |-> 131072, bytes |-> << >>]]]

\* a CFF-flavored font has neither table
CFFFont == [isTrueType |-> FALSE, format |-> 0, numGlyphs |-> 2, tbl |-> [t \in {} |-> << >>]]

GlyfInputs ==
    UNION { { GlyfFont(f, Len(glyphs), glyphs, GlyphOffsets(glyphs)) : f \in { 0, 1 } } :
            glyphs \in GlyphLists }
    \cup UNION { { GlyfFont(f, l.numGlyphs, << Triangle, << >> >>, l.offs) :
                     l \in LocaChoices(<< Triangle, << >> >>) } : f \in { 0, 1 } }
    \cup { AllEmpty, CFFFont }

\* the font's tables and the values decoded before parseLoca
TblInit(font, at) ==
    /\ b = << >>
    /\ input = << >>
    /\ pc = at
    /\ numTables = 0
    /\ i = 0
    /\ dir = << >>
    /\ checksumAdjustment = U32(0)
    /\ tables = NoTables
    /\ result = ""
    /\ run = 1
    /\ accepted = << >>
    /\ changed = -1
    /\ IsCFF = ~ font.isTrueType
    /\ IsTrueType = font.isTrueType
    /\ decoded = {}
    /\ tableNames = << >>
    /\ order = << >>
    /\ NumGlyphs = font.numGlyphs
    /\ j = 0
    /\ offsets = << >>
    /\ lengths = << >>
    /\ Cmap = [EncodingRecords |-> << >>, Subtables |-> << >>]
    /\ rs = NoHeader
    /\ lookups = << >>
    /\ table = font.tbl
    /\ IndexToLocFormat = font.format
    /\ Loca = << >>
    /\ Glyf = << >>
    /\ Hhea = << >>
    /\ Hmtx = << >>
    /\ Kern = << >>
    /\ Post = << >>
    /\ Name = << >>
    /\ calls = << >>
    /\ threads = << >>
    /\ locals = << >>

GlyfInit == \E font \in GlyfInputs : TblInit(font, "parseLoca")

GlyfNext ==
    \/ ParseLocaTable
    \/ ParseGlyfTable
    \/ ReturnParsed
    \/ GlyphContour

SpecGlyf == GlyfInit /\ [][GlyfNext]_vars

\* ------------------------------------------------------------------------
\* Claims about loca, glyf and the outlines
\* ------------------------------------------------------------------------

\* the decoded offsets as integers
LocaOffsets == [k \in 1..Len(Loca[1].Offsets) |-> ToInt(Loca[1].Offsets[k])]

\* numGlyphs+1 offsets that do not decrease and end at the length of glyf
LocaWellFormed ==
    /\ Loca # << >>
    /\ Len(LocaOffsets) = NumGlyphs + 1
    /\ \A k \in 1..(Len(LocaOffsets) - 1) : LocaOffsets[k] <= LocaOffsets[k + 1]
    /\ LocaOffsets[Len(LocaOffsets)] = Len(table["glyf"])

\* a returned TrueType font has well-formed offsets
C14_ReturnedLocaWellFormed ==
    (pc = "done" /\ IsTrueType /\ result = FontReturned) => LocaWellFormed

\* C14: a TrueType font that ParseSFNT returns has numGlyphs+1 loca offsets
\* that do not decrease and end at the length of glyf, for every glyph count
\* up to 65535; any other font is rejected with an error.
C14_LocaOffsets ==
    (pc = "done" /\ IsTrueType) =>
        IF result = FontReturned THEN LocaWellFormed
        ELSE result \in { ErrLocaBadTable, ErrLocaBadOffsets, ErrGlyfTable }

\* the GlyphContour calls made
ContourCalls == { k \in 1..Len(calls) : calls[k].fn = "GlyphContour" }

\* the bytes of glyph g of a returned TrueType font, g < numGlyphs
GlyphBytes(g) == Slice(table["glyf"], LocaOffsets[g + 1], LocaOffsets[g + 2])

\* glyph g has a glyph header with a negative numberOfContours
IsComposite(g) ==
    /\ IsTrueType
    /\ g < NumGlyphs
    /\ Len(GlyphBytes(g)) >= 10
    /\ ReadInt16(GlyphBytes(g), 0) < 0

\* what C15 says of the calls on glyph IDs beyond the font, on empty and on
\* short glyphs, and on CFF-flavored fonts
ContourCases(k) ==
    LET g   == calls[k].glyphID
        out == calls[k].out
    IN  /\ ~ IsTrueType => out.err = ErrCFFNotSupported
        /\ (IsTrueType /\ g >= NumGlyphs) => out.err = ErrGlyfBadGlyphID
        /\ (IsTrueType /\ g < NumGlyphs /\ Len(GlyphBytes(g)) = 0) =>
              (out.err = Nil /\ out.nil)
        /\ (IsTrueType /\ g < NumGlyphs /\ Len(GlyphBytes(g)) \in 1..9) =>
              out.err = ErrGlyfBadTable

\* C15 as stated: in every other case only bytes of glyph g itself are decoded.
C15_ContourOnlyOwnBytes ==
    \A k \in ContourCalls :
        /\ ContourCases(k)
        /\ calls[k].out.visited \subseteq { calls[k].glyphID }

\* C15, amended: a simple glyph is decoded from its own bytes only; a composite
\* glyph from its own bytes and those of the glyphs of its components.
C15_ContourCases ==
    \A k \in ContourCalls :
        /\ ContourCases(k)
        /\ (IsTrueType /\ ~ IsComposite(calls[k].glyphID)) =>
              calls[k].out.visited \subseteq { calls[k].glyphID }
        /\ IsTrueType => \A g \in calls[k].out.visited : g < NumGlyphs

\* the outline of a composite glyph of a composite glyph was returned
C15_Witness ==
    /\ calls # << >>
    /\ calls[1].fn = "GlyphContour"
    /\ calls[1].out.err = Nil
    /\ ~ calls[1].out.nil
    /\ calls[1].glyphID = 2
    /\ calls[1].out.visited = { 0, 1, 2 }

\* glyph g is a composite glyph whose first component record is readable
HasFirstComponent(g) == IsComposite(g) /\ ReadComponent(GlyphBytes(g), 10).err = Nil

\* following first components from glyph g leads through n more composite glyphs
RECURSIVE CompositeChain(_, _)
CompositeChain(g, n) ==
    IF n = 0 THEN IsComposite(g)
    ELSE /\ HasFirstComponent(g)
         /\ CompositeChain(ReadComponent(GlyphBytes(g), 10).subGlyphID, n - 1)

\* C16: Contour never runs above level 8, and a glyph whose chain of first
\* components is composite on nine levels gets the 'too deeply nested' error.
C16_DepthCapped ==
    \A k \in ContourCalls :
        /\ calls[k].out.depth <= 8
        /\ (IsTrueType /\ CompositeChain(calls[k].glyphID, 8)) =>
              calls[k].out.err = ErrGlyfTooDeep

\* GlyphContour of a glyph that contains itself returned the error from level 8
C16_Witness ==
    /\ calls # << >>
    /\ calls[1].fn = "GlyphContour"
    /\ CompositeChain(calls[1].glyphID, 8)
    /\ calls[1].out.err = ErrGlyfTooDeep
    /\ calls[1].out.depth = 8

\* the component records of a composite glyph, from pos on
RECURSIVE ComponentRecords(_, _)
ComponentRecords(buf, pos) ==
    LET c == ReadComponent(buf, pos)
    IN  IF c.err # Nil THEN << >>
        ELSE << c >> \o (IF Bit(c.flags, 32) THEN ComponentRecords(buf, c.pos) ELSE << >>)

\* (v*t + 2^13) >> 14
HalfUp(v, t) == (v * t + 8192) \div 16384

\* the component has one of the three scale flags
HasScale(c) == Bit(c.flags, 8) \/ Bit(c.flags, 64) \/ Bit(c.flags, 128)

\* T_k(p) + (dx_k, dy_k) in int16 coordinates
Mapped(c, x, y) ==
    IF HasScale(c)
    THEN << Int16(c.dx + HalfUp(x, c.txx) + HalfUp(y, c.tyx)),
            Int16(c.dy + HalfUp(x, c.txy) + HalfUp(y, c.tyy)) >>
    ELSE << Int16(c.dx + x), Int16(c.dy + y) >>

RECURSIVE PointsBefore(_, _)
PointsBefore(subs, n) ==
    IF n <= 1 THEN 0 ELSE PointsBefore(subs, n - 1) + Len(subs[n - 1].XCoordinates)

\* the contour C17 describes for the component records cs with outlines subs
Flattened(cs, subs) ==
    [ EndPoints    |-> Flatten([n \in 1..Len(cs) |->
                          [p \in 1..Len(subs[n].EndPoints) |->
                              (subs[n].EndPoints[p] + PointsBefore(subs, n)) % Pow16]]),
      OnCurve      |-> Flatten([n \in 1..Len(cs) |-> subs[n].OnCurve]),
      XCoordinates |-> Flatten([n \in 1..Len(cs) |->
                          [p \in 1..Len(subs[n].XCoordinates) |->
                              Mapped(cs[n], subs[n].XCoordinates[p],
                                     subs[n].YCoordinates[p])[1]]]),
      YCoordinates |-> Flatten([n \in 1..Len(cs) |->
                          [p \in 1..Len(subs[n].XCoordinates) |->
                              Mapped(cs[n], subs[n].XCoordinates[p],
                                     subs[n].YCoordinates[p])[2]]]) ]

\* the outlines of the components of glyph g
ComponentOutlines(g) ==
    LET cs == ComponentRecords(GlyphBytes(g), 10)
    IN  [n \in 1..Len(cs) |->
            Contour(Glyf[1].data, Glyf[1].loca, cs[n].subGlyphID, 1).contour]

\* C17: the outline returned for a composite glyph is the concatenation of its
\* components' outlines: every point mapped by the component's transform
\* (rounded half-up, the identity without a scale flag) and moved by (dx, dy),
\* the on-curve flags concatenated, the end points raised by the number of
\* points appended before.
C17_CompositeFlattened ==
    \A k \in ContourCalls :
        LET g   == calls[k].glyphID
            out == calls[k].out
        IN  (IsComposite(g) /\ out.err = Nil /\ ~ out.nil) =>
                LET f == Flattened(ComponentRecords(GlyphBytes(g), 10), ComponentOutlines(g))
                IN  /\ out.contour.EndPoints = f.EndPoints
                    /\ out.contour.OnCurve = f.OnCurve
                    /\ out.contour.XCoordinates = f.XCoordinates
                    /\ out.contour.YCoordinates = f.YCoordinates

\* the outline of a composite glyph of two components, the second scaled by a
\* two-by-two transform, was returned
C17_Witness ==
    /\ calls # << >>
    /\ calls[1].fn = "GlyphContour"
    /\ IsComposite(calls[1].glyphID)
    /\ calls[1].out.err = Nil
    /\ ~ calls[1].out.nil
    /\ LET cs == ComponentRecords(GlyphBytes(calls[1].glyphID), 10)
       IN  /\ Len(cs) = 2
           /\ ~ HasScale(cs[1])
           /\ Bit(cs[2].flags, 128)
           /\ Len(calls[1].out.contour.XCoordinates) = 6

\* the end points read from the bytes of a simple glyph
EndPointsRead(buf) ==
    [k \in 1..ReadInt16(buf, 0) |-> ReadUint16(buf, 10 + 2 * (k - 1))]

StrictlyIncreasing(seq) == \A k \in 1..(Len(seq) - 1) : seq[k] < seq[k + 1]

\* glyph g is a simple glyph that holds all its end points
IsSimple(g) ==
    /\ IsTrueType
    /\ g < NumGlyphs
    /\ Len(GlyphBytes(g)) >= 10
    /\ ReadInt16(GlyphBytes(g), 0) >= 0
    /\ Len(GlyphBytes(g)) >= 10 + 2 * ReadInt16(GlyphBytes(g), 0)

\* C18: a simple glyph whose end points are not strictly increasing is not
\* decoded, and the end points of a returned outline are strictly increasing.
C18_EndPointsIncreasing ==
    \A k \in ContourCalls :
        LET g   == calls[k].glyphID
            out == calls[k].out
        IN  /\ (IsSimple(g) /\ ~ StrictlyIncreasing(EndPointsRead(GlyphBytes(g)))) =>
                  out.err \notin { Nil, Panic }
            /\ (out.err = Nil /\ ~ out.nil) => StrictlyIncreasing(out.contour.EndPoints)

\* ------------------------------------------------------------------------
\* hhea and hmtx: decoding (lines 842-878, 906-930) and the metrics (892-904)
\* ------------------------------------------------------------------------

ErrHheaMissing   == "hhea: missing table"
ErrHheaBadTable  == "hhea: bad table"
ErrHheaVersion   == "hhea: bad version"
ErrHheaBadNumber == "hhea: bad numberOfHMetrics"
ErrHmtxMissing   == "hmtx: missing table"
ErrHmtxBadTable  == "hmtx: bad table"

\* line 874, without the test for zero
BadNumberOfHMetricsAboveOnly(numGlyphs, numberOfHMetrics) == numGlyphs < numberOfHMetrics

\* line 874
BadNumberOfHMetrics(numGlyphs, numberOfHMetrics) ==
    numGlyphs < numberOfHMetrics \/ numberOfHMetrics = 0

\* lines 842-878; the result is the error and NumberOfHMetrics
parseHhea(tbl, numGlyphs) ==
    IF "hhea" \notin DOMAIN tbl THEN [err |-> ErrHheaMissing, NumberOfHMetrics |-> 0]
    ELSE LET buf == tbl["hhea"]
             majorVersion == ReadUint16(buf, 0)
             minorVersion == ReadUint16(buf, 2)
             n == ReadUint16(buf, 34)
         IN  IF Len(buf) # 36 THEN [err |-> ErrHheaBadTable, NumberOfHMetrics |-> 0]
             ELSE IF majorVersion # 1 /\ minorVersion # 0
             THEN [err |-> ErrHheaVersion, NumberOfHMetrics |-> 0]
             ELSE IF BadNumberOfHMetrics(numGlyphs, n)
             THEN [err |-> ErrHheaBadNumber, NumberOfHMetrics |-> n]
             ELSE [err |-> Nil, NumberOfHMetrics |-> n]

\* lines 906-930; the result is the error and the hmtxTable
parseHmtx(tbl, numGlyphs, numberOfHMetrics) ==
    LET rest   == Sub16(numGlyphs, numberOfHMetrics)
        length == 4 * numberOfHMetrics + 2 * rest
        none   == [HMetrics |-> << >>, LeftSideBearings |-> << >>]
    IN  IF "hmtx" \notin DOMAIN tbl THEN [err |-> ErrHmtxMissing, hmtx |-> none]
        ELSE IF Len(tbl["hmtx"]) # length THEN [err |-> ErrHmtxBadTable, hmtx |-> none]
        ELSE [err |-> Nil,
              hmtx |-> [HMetrics |-> [k \in 1..numberOfHMetrics |->
                                        [AdvanceWidth |-> ReadUint16(tbl["hmtx"], 4 * (k - 1)),
                                         Lsb |-> ReadInt16(tbl["hmtx"], 4 * (k - 1) + 2)]],
                        LeftSideBearings |-> [k \in 1..rest |->
                                        ReadInt16(tbl["hmtx"],
                                                  4 * numberOfHMetrics + 2 * (k - 1))]]]

\* lines 892-897: hmtx.LeftSideBearing; an index out of range panics
hmtxLeftSideBearing(hmtx, glyphID) ==
    LET n == Len(hmtx.HMetrics) % Pow16
    IN  IF n <= glyphID
        THEN IF Sub16(glyphID, n) < Len(hmtx.LeftSideBearings)
             THEN hmtx.LeftSideBearings[Sub16(glyphID, n) + 1]
             ELSE Panic
        ELSE hmtx.HMetrics[glyphID + 1].Lsb

\* lines 899-904: hmtx.Advance; an index out of range panics
hmtxAdvance(hmtx, glyphID) ==
    LET n == Len(hmtx.HMetrics) % Pow16
        g == IF n <= glyphID THEN Sub16(n, 1) ELSE glyphID
    IN  IF g < Len(hmtx.HMetrics) THEN hmtx.HMetrics[g + 1].AdvanceWidth ELSE Panic

\* lines 58-60: SFNT.GlyphAdvance; hmtxTable is sfnt.Hmtx (<< >> when nil)
GlyphAdvanceOf(hmtxTable, glyphID) ==
    IF hmtxTable = << >> THEN Panic ELSE hmtxAdvance(hmtxTable[1], glyphID)

\* sfnt.Hmtx.LeftSideBearing(glyphID)
LeftSideBearingOf(hmtxTable, glyphID) ==
    IF hmtxTable = << >> THEN Panic ELSE hmtxLeftSideBearing(hmtxTable[1], glyphID)

\* lines 148-149
ParseHheaTable ==
    /\ pc = "parseHhea"
    /\ LET r == parseHhea(table, NumGlyphs)
       IN  IF r.err # Nil
           THEN Return(r.err) /\ UNCHANGED Hhea
           ELSE /\ Hhea' = << [NumberOfHMetrics |-> r.NumberOfHMetrics] >>
                /\ pc' = "parseHmtx"
                /\ UNCHANGED result
    /\ UNCHANGED << IsTrueType, NumGlyphs, table, IndexToLocFormat, Loca, Glyf, Hmtx, Kern,
                    calls >>
    /\ UNCHANGED notTbl

\* lines 173-174
ParseHmtxTable ==
    /\ pc = "parseHmtx"
    /\ LET r == parseHmtx(table, NumGlyphs, Hhea[1].NumberOfHMetrics)
       IN  IF r.err # Nil
           THEN Return(r.err) /\ UNCHANGED Hmtx
           ELSE /\ Hmtx' = << r.hmtx >>
                /\ pc' = "parsed"
                /\ UNCHANGED result
    /\ UNCHANGED << IsTrueType, NumGlyphs, table, IndexToLocFormat, Loca, Glyf, Hhea, Kern,
                    calls >>
    /\ UNCHANGED notTbl

\* lines 58-60: one call of GlyphAdvance on the returned font
GlyphAdvance ==
    /\ pc = "done"
    /\ result = FontReturned
    /\ calls = << >>
    /\ \E g \in GlyphIDChoices :
          calls' = << [fn |-> "GlyphAdvance", glyphID |-> g,
                       out |-> GlyphAdvanceOf(Hmtx, g)] >>
    /\ UNCHANGED << pc, result, IsTrueType, NumGlyphs, table, IndexToLocFormat, Loca, Glyf,
                    Hhea, Hmtx, Kern >>
    /\ UNCHANGED notTbl

\* lines 892-897: one call of Hmtx.LeftSideBearing on the returned font
LeftSideBearing ==
    /\ pc = "done"
    /\ result = FontReturned
    /\ calls = << >>
    /\ \E g \in GlyphIDChoices :
          calls' = << [fn |-> "LeftSideBearing", glyphID |-> g,
                       out |-> LeftSideBearingOf(Hmtx, g)] >>
    /\ UNCHANGED << pc, result, IsTrueType, NumGlyphs, table, IndexToLocFormat, Loca, Glyf,
                    Hhea, Hmtx, Kern >>
    /\ UNCHANGED notTbl

\* an hhea table of 36 bytes plus extra bytes
HheaBytes(majorVersion, minorVersion, numberOfHMetrics, extra) ==
    Words(<< majorVersion, minorVersion >>) \o [k \in 1..30 |-> 0]
        \o Words(<< numberOfHMetrics >>) \o [k \in 1..extra |-> 0]

\* entry k has advance width 500 + 10 * k and bearing k - 2; trailing bearing k
\* is -10 * k
HmtxBytes(numberOfHMetrics, rest) ==
    Flatten([k \in 1..numberOfHMetrics |->
                Words(<< 500 + 10 * k, (k - 2 + Pow16) % Pow16 >>)])
        \o Words([k \in 1..rest |-> Pow16 - 10 * k])

\* the largest glyph count of the fonts with metrics
MaxMetricGlyphs == 3

\* versions 1.0, 1.1, 2.0 and 2.1; a table one word too long
HheaChoices(n) ==
    { HheaBytes(v[1], v[2], n, 0) : v \in { << 1, 0 >>, << 1, 1 >>, << 2, 0 >>, << 2, 1 >> } }
    \cup { HheaBytes(1, 0, n, 2) }

\* the hmtx table for (m, rest) entries
HmtxInputs ==
    { [isTrueType |-> FALSE, format |-> 0, numGlyphs |-> g,
       tbl |-> [t \in { "hhea", "hmtx" } |->
                  IF t = "hhea" THEN h ELSE HmtxBytes(m[1], m[2])]] :
          g \in 0..MaxMetricGlyphs,
          h \in UNION { HheaChoices(n) : n \in 0..(MaxMetricGlyphs + 1) },
          m \in (0..MaxMetricGlyphs) \X (0..MaxMetricGlyphs) }

HmtxInit == \E font \in HmtxInputs : TblInit(font, "parseHhea")

HmtxNext ==
    \/ ParseHheaTable
    \/ ParseHmtxTable
    \/ ReturnParsed
    \/ GlyphAdvance
    \/ LeftSideBearing

SpecHmtx == HmtxInit /\ [][HmtxNext]_vars

\* the calls made of the function fn
CallsOf(fn) == { k \in 1..Len(calls) : calls[k].fn = fn }

\* the bytes of hmtx as the table describes them: entry k of the metrics and
\* trailing bearing k
AdvanceAt(k) == Uint16At(table["hmtx"], 4 * (k - 1))
BearingAt(k) == Int16(Uint16At(table["hmtx"], 4 * (k - 1) + 2))
TrailingAt(n, k) == Int16(Uint16At(table["hmtx"], 4 * n + 2 * (k - 1)))

\* C19: a returned font has 1 <= numberOfHMetrics <= numGlyphs, hmtx holds
\* numberOfHMetrics entries and numGlyphs - numberOfHMetrics trailing
\* bearings, GlyphAdvance(g) is entry g's advance width or the last entry's,
\* and LeftSideBearing(g) for g < numGlyphs is the glyph's own bearing.
C19_Metrics ==
    (pc = "done" /\ result = FontReturned) =>
        LET n == Hhea[1].NumberOfHMetrics
        IN  /\ 1 <= n
            /\ n <= NumGlyphs
            /\ Len(Hmtx[1].HMetrics) = n
            /\ Len(Hmtx[1].LeftSideBearings) = NumGlyphs - n
            /\ Len(table["hmtx"]) = 4 * n + 2 * (NumGlyphs - n)
            /\ \A k \in CallsOf("GlyphAdvance") :
                  calls[k].out =
                      IF calls[k].glyphID < n THEN AdvanceAt(calls[k].glyphID + 1)
                      ELSE AdvanceAt(n)
            /\ \A k \in CallsOf("LeftSideBearing") :
                  calls[k].glyphID < NumGlyphs =>
                      calls[k].out =
                          IF calls[k].glyphID < n THEN BearingAt(calls[k].glyphID + 1)
                          ELSE TrailingAt(n, calls[k].glyphID - n + 1)

\* GlyphAdvance of a glyph beyond the metrics returned the last entry's advance
C19_Witness ==
    /\ pc = "done"
    /\ result = FontReturned
    /\ NumGlyphs = 3
    /\ Hhea[1].NumberOfHMetrics = 2
    /\ calls # << >>
    /\ calls[1].fn = "GlyphAdvance"
    /\ calls[1].glyphID = 65535
    /\ calls[1].out = 520

\* LeftSideBearing of a glyph beyond the metrics returned its trailing bearing
C19_WitnessBearing ==
    /\ pc = "done"
    /\ result = FontReturned
    /\ NumGlyphs = 3
    /\ Hhea[1].NumberOfHMetrics = 1
    /\ calls # << >>
    /\ calls[1].fn = "LeftSideBearing"
    /\ calls[1].glyphID = 2
    /\ calls[1].out = -20

\* ------------------------------------------------------------------------
\* kern: decoding (lines 977-1038) and the lookup (lines 944-975)
\* ------------------------------------------------------------------------

ErrKernBadTable    == "kern: bad table"
ErrKernBadVersion  == "kern: bad version"
ErrKernBadSubtable == "kern: bad subtable"
ErrKernBadLength   == "kern: bad length for subtable"
ErrKernBadPair     == "kern: bad left right pair for subtable"

\* the cursor after ReadBytes(n) at pos: a read that does not fit ends at the
\* end of the buffer
SkipBytes(buf, pos, n) == IF pos + n <= Len(buf) THEN pos + n ELSE Len(buf)

\* uint8ToFlags(v)[k]
FlagOf(v, k) == (v \div (2 ^ k)) % 2 = 1

\* line 1028, accepting a key equal to the one before
KeysOutOfOrderBelowOnly(k, key, pairs) == 0 < k /\ Lt32(key, pairs[k].Key)

\* line 1028: pair k (0-based) has a key that is not above the one before
KeysOutOfOrder(k, key, pairs) == 0 < k /\ Le32(key, pairs[k].Key)

\* lines 1025-1031: the pairs from index k on (0-based), read at pos; the result
\* is the error and the pairs
RECURSIVE ReadPairs(_, _, _, _, _)
ReadPairs(buf, pos, k, nPairs, pairs) ==
    IF k >= nPairs THEN [err |-> Nil, Pairs |-> pairs]
    ELSE LET pair == [Key |-> ReadUint32(buf, pos + 6 * k),
                      Value |-> ReadInt16(buf, pos + 6 * k + 4)]
         IN  IF KeysOutOfOrder(k, pair.Key, pairs)
             THEN [err |-> ErrKernBadPair, Pairs |-> pairs]
             ELSE ReadPairs(buf, pos, k + 1, nPairs, Append(pairs, pair))

\* lines 992-1036: the subtables from number n on, the cursor at pos
RECURSIVE ReadKernSubtables(_, _, _, _, _)
ReadKernSubtables(buf, pos, n, nTables, subtables) ==
    IF n >= nTables THEN [err |-> Nil, Subtables |-> subtables]
    ELSE IF Len(buf) - pos < 6 THEN [err |-> ErrKernBadSubtable, Subtables |-> subtables]
    ELSE LET subtableVersion == ReadUint16(buf, pos)
             length   == ReadUint16(buf, pos + 2)
             format   == ReadUint8(buf, pos + 4)
             coverage == ReadUint8(buf, pos + 5)
             nPairs   == ReadUint16(buf, pos + 6)
             read     == ReadPairs(buf, pos + 14, 0, nPairs, << >>)
             after    == SkipBytes(buf, pos + 14, 6 * nPairs)
         IN  IF subtableVersion # 0
             THEN ReadKernSubtables(buf, pos + 2, n + 1, nTables, subtables)
             ELSE IF format # 0
             THEN ReadKernSubtables(buf, pos + 6, n + 1, nTables, subtables)
             ELSE IF Len(buf) - (pos + 6) < 8
             THEN [err |-> ErrKernBadSubtable, Subtables |-> subtables]
             ELSE IF length < 14 + 6 * nPairs
             THEN [err |-> ErrKernBadLength, Subtables |-> subtables]
             ELSE IF read.err # Nil THEN [err |-> read.err, Subtables |-> subtables]
             ELSE ReadKernSubtables(buf, SkipBytes(buf, after, length - (after - pos)),
                                    n + 1, nTables,
                                    Append(subtables, [Coverage |-> coverage,
                                                       Pairs |-> read.Pairs]))

\* lines 977-1038; bytes is sfnt.Tables["kern"]
parseKern(bytes) ==
    IF Len(bytes) < 4 THEN [err |-> ErrKernBadTable, Subtables |-> << >>]
    ELSE IF ReadUint16(bytes, 0) # 0 THEN [err |-> ErrKernBadVersion, Subtables |-> << >>]
    ELSE ReadKernSubtables(bytes, 4, 0, ReadUint16(bytes, 2), << >>)

\* lines 944-959: the binary search of kernFormat0.Get
RECURSIVE kernSearch(_, _, _, _)
kernSearch(Pairs, key, lo, hi) ==
    IF lo >= hi THEN 0
    ELSE LET mid == (lo + hi) \div 2
         IN  IF Lt32(Pairs[mid + 1].Key, key) THEN kernSearch(Pairs, key, mid + 1, hi)
             ELSE IF Lt32(key, Pairs[mid + 1].Key) THEN kernSearch(Pairs, key, lo, mid)
             ELSE Pairs[mid + 1].Value

\* lines 944-959: kernFormat0.Get
kernFormat0Get(subtable, l, r) == kernSearch(subtable.Pairs, << l, r >>, 0, Len(subtable.Pairs))

\* lines 967-972, adding whatever the coverage is
kernCombineSum(coverage, k, v) == Int16(k + v)

\* lines 967-972: the total k after a subtable with value v for the pair
kernCombine(coverage, k, v) ==
    IF ~ FlagOf(coverage, 1) THEN Int16(k + v)
    ELSE IF k < v THEN v ELSE k

\* lines 965-975: kernTable.Get over the subtables from number n on
RECURSIVE kernTableGet(_, _, _, _, _)
kernTableGet(Subtables, n, l, r, k) ==
    IF n > Len(Subtables) THEN k
    ELSE kernTableGet(Subtables, n + 1, l, r,
                      kernCombine(Subtables[n].Coverage, k,
                                  kernFormat0Get(Subtables[n], l, r)))

\* lines 62-64: SFNT.Kerning; kernTable is sfnt.Kern (<< >> when nil, and the
\* call panics)
KerningOf(kernTable, l, r) ==
    IF kernTable = << >> THEN [panic |-> TRUE, value |-> 0]
    ELSE [panic |-> FALSE, value |-> kernTableGet(kernTable[1].Subtables, 1, l, r, 0)]

\* lines 175-176, for a font with or without a kern table
ParseKernTable ==
    /\ pc = "parseKern"
    /\ IF "kern" \in DOMAIN table
       THEN LET parsed == parseKern(table["kern"])
            IN  /\ Kern' = IF ReadUint16(table["kern"], 0) = 0 /\ Len(table["kern"]) >= 4
                           THEN << [Subtables |-> parsed.Subtables] >>
                           ELSE Kern
                /\ IF parsed.err # Nil
                   THEN Return(parsed.err)
                   ELSE pc' = "parsed" /\ UNCHANGED result
       ELSE /\ pc' = "parsed"
            /\ UNCHANGED << result, Kern >>
    /\ UNCHANGED << IsTrueType, NumGlyphs, table, IndexToLocFormat, Loca, Glyf, Hhea, Hmtx,
                    calls >>
    /\ UNCHANGED notTbl

\* the glyph IDs Kerning is called with
KernGlyphChoices == { 0, 1, 2, 65535 }

\* lines 62-64: one call of Kerning on the returned font
Kerning ==
    /\ pc = "done"
    /\ result = FontReturned
    /\ calls = << >>
    /\ \E l \in KernGlyphChoices, r \in KernGlyphChoices :
          calls' = << [fn |-> "Kerning", left |-> l, right |-> r,
                       out |-> KerningOf(Kern, l, r)] >>
    /\ UNCHANGED << pc, result, IsTrueType, NumGlyphs, table, IndexToLocFormat, Loca, Glyf,
                    Hhea, Hmtx, Kern >>
    /\ UNCHANGED notTbl

\* a kern subtable: version, length, format, coverage, the pairs as
\* << left, right, value >>, and extra bytes
KernSubtable(version, length, format, coverage, pairs, extra) ==
    Words(<< version, length >>) \o << format, coverage >>
        \o Words(<< Len(pairs), 0, 0, 0 >>)
        \o Flatten([k \in 1..Len(pairs) |->
                      Words(<< pairs[k][1], pairs[k][2], (pairs[k][3] + Pow16) % Pow16 >>)])
        \o [k \in 1..extra |-> 0]

\* a format-0 subtable of the pairs with its own length
KernPairs(coverage, pairs) == KernSubtable(0, 14 + 6 * Len(pairs), 0, coverage, pairs, 0)

\* subtables that add and that override; without pairs; with a length larger
\* than the subtable and padding; of another version and of another format;
\* with keys out of order and with a key twice; with a length too small; cut
\* short
KernSubtableChoices ==
    { KernPairs(0, << << 1, 2, -50 >>, << 1, 65535, 20 >>, << 2, 1, 7 >> >>),
      KernPairs(2, << << 1, 2, 30 >> >>),
      KernPairs(0, << >>),
      KernSubtable(0, 22, 0, 0, << << 0, 1, -3 >> >>, 2),
      KernSubtable(1, 20, 0, 0, << << 1, 2, 5 >> >>, 0),
      KernSubtable(0, 20, 2, 0, << << 1, 2, 5 >> >>, 0),
      KernPairs(0, << << 2, 1, 7 >>, << 1, 2, -50 >> >>),
      KernPairs(0, << << 1, 2, 7 >>, << 1, 2, -50 >> >>),
      KernSubtable(0, 14, 0, 0, << << 1, 2, 5 >> >>, 0),
      SubSeq(KernPairs(0, << << 1, 2, 5 >> >>), 1, 10) }

\* the largest number of subtables of a kern table
MaxKernSubtables == 2

\* a kern table of the subtables, with the version and the count given
KernBytes(version, nTables, subtables) ==
    Words(<< version, nTables >>) \o Flatten(subtables)

KernTables ==
    UNION { { KernBytes(0, n, subtables) : subtables \in [1..n -> KernSubtableChoices] } :
            n \in 0..MaxKernSubtables }
    \cup { KernBytes(1, 0, << >>), << 0, 0 >>,
           KernBytes(0, 2, << KernPairs(0, << << 1, 2, 5 >> >>) >>) }

\* fonts with a kern table and a font without
KernInputs ==
    { [isTrueType |-> FALSE, format |-> 0, numGlyphs |-> 3,
       tbl |-> [t \in { "kern" } |-> bytes]] : bytes \in KernTables }
    \cup { [isTrueType |-> FALSE, format |-> 0, numGlyphs |-> 3,
            tbl |-> [t \in {} |-> << >>]] }

KernInit == \E font \in KernInputs : TblInit(font, "parseKern")

KernNext ==
    \/ ParseKernTable
    \/ ReturnParsed
    \/ Kerning

SpecKern == KernInit /\ [][KernNext]_vars

\* a decoded subtable holds the pair (l, r)
PairDecoded(l, r) ==
    /\ Kern # << >>
    /\ \E n \in 1..Len(Kern[1].Subtables) :
          \E p \in 1..Len(Kern[1].Subtables[n].Pairs) :
              Kern[1].Subtables[n].Pairs[p].Key = << l, r >>

\* on a font with a decoded kern table Kerning returns a value, which is 0 when
\* no subtable holds the pair
C20_ZeroWhenAbsent ==
    \A k \in CallsOf("Kerning") :
        Kern # << >> =>
            /\ ~ calls[k].out.panic
            /\ ~ PairDecoded(calls[k].left, calls[k].right) => calls[k].out.value = 0

\* C20: on every returned font, with or without a kern table, Kerning(l, r)
\* returns a value, which is 0 when no decoded subtable holds the pair.
C20_KerningTotal ==
    \A k \in CallsOf("Kerning") :
        /\ ~ calls[k].out.panic
        /\ ~ PairDecoded(calls[k].left, calls[k].right) => calls[k].out.value = 0

\* the value of the pair (l, r) in the pairs from index p on, 0 without one
RECURSIVE LinearScan(_, _, _, _)
LinearScan(Pairs, l, r, p) ==
    IF p > Len(Pairs) THEN 0
    ELSE IF Pairs[p].Key = << l, r >> THEN Pairs[p].Value
    ELSE LinearScan(Pairs, l, r, p + 1)

\* the total C21 describes after the subtables from number n on: a subtable
\* with the coverage flag clear adds its value, one with the flag set leaves the
\* smaller of the total and its value
RECURSIVE FoldSumOrMinimum(_, _, _, _, _)
FoldSumOrMinimum(Subtables, n, l, r, k) ==
    IF n > Len(Subtables) THEN k
    ELSE LET v == LinearScan(Subtables[n].Pairs, l, r, 1)
         IN  FoldSumOrMinimum(Subtables, n + 1, l, r,
                              IF ~ FlagOf(Subtables[n].Coverage, 1) THEN Int16(k + v)
                              ELSE IF v < k THEN v ELSE k)

\* C21: Kerning(l, r) is the fold of the subtables in table order from 0: a
\* subtable with the coverage flag clear adds its value, one with the flag set
\* replaces the total by the minimum of the total and its value.
C21_KerningFold ==
    \A k \in CallsOf("Kerning") :
        ~ calls[k].out.panic =>
            calls[k].out.value =
                FoldSumOrMinimum(Kern[1].Subtables, 1, calls[k].left, calls[k].right, 0)

\* the total after the subtables from number n on when a subtable with the
\* coverage flag set raises the total to its value
RECURSIVE FoldSumOrFloor(_, _, _, _, _)
FoldSumOrFloor(Subtables, n, l, r, k) ==
    IF n > Len(Subtables) THEN k
    ELSE LET v == LinearScan(Subtables[n].Pairs, l, r, 1)
         IN  FoldSumOrFloor(Subtables, n + 1, l, r,
                            IF (Subtables[n].Coverage \div 2) % 2 = 0 THEN Int16(k + v)
                            ELSE IF k < v THEN v ELSE k)

\* C21, amended: a subtable with the coverage flag set replaces the total by
\* the larger of the total and its value (its value is a lower limit).
C21_KerningFoldFloor ==
    \A k \in CallsOf("Kerning") :
        ~ calls[k].out.panic =>
            calls[k].out.value =
                FoldSumOrFloor(Kern[1].Subtables, 1, calls[k].left, calls[k].right, 0)

\* Kerning of a pair that a subtable with the flag clear gives -50 and a later
\* one with the flag set gives 30 returned 30
C21_Witness ==
    /\ calls # << >>
    /\ calls[1].fn = "Kerning"
    /\ ~ calls[1].out.panic
    /\ Len(Kern[1].Subtables) = 2
    /\ Kern[1].Subtables[1].Coverage = 0
    /\ Kern[1].Subtables[2].Coverage = 2
    /\ calls[1].left = 1
    /\ calls[1].right = 2
    /\ LinearScan(Kern[1].Subtables[1].Pairs, 1, 2, 1) = -50
    /\ calls[1].out.value = 30

\* the keys of the pairs rise strictly
KeysIncreasing(Pairs) == \A p \in 1..(Len(Pairs) - 1) : Lt32(Pairs[p].Key, Pairs[p + 1].Key)

\* the kern table has a format-0 subtable (version 0, format 0, with all its
\* pairs inside the table) at pos whose keys do not rise strictly
UnorderedSubtableAt(buf, pos) ==
    /\ pos + 14 <= Len(buf)
    /\ ReadUint16(buf, pos) = 0
    /\ ReadUint8(buf, pos + 4) = 0
    /\ pos + 14 + 6 * ReadUint16(buf, pos + 6) <= Len(buf)
    /\ ReadUint16(buf, pos + 2) >= 14 + 6 * ReadUint16(buf, pos + 6)
    /\ \E p \in 1..(ReadUint16(buf, pos + 6) - 1) :
          Le32(ReadUint32(buf, pos + 14 + 6 * p), ReadUint32(buf, pos + 14 + 6 * (p - 1)))

\* C22: a font with a format-0 subtable whose keys do not rise strictly is
\* rejected, and on every decoded subtable the binary search returns what a
\* linear scan returns: the value of the pair with key (l, r), 0 without one.
C22_BinarySearch ==
    /\ (pc = "done" /\ "kern" \in DOMAIN table /\ Len(table["kern"]) >= 4
          /\ ReadUint16(table["kern"], 0) = 0 /\ ReadUint16(table["kern"], 2) >= 1
          /\ UnorderedSubtableAt(table["kern"], 4)) =>
            result = ErrKernBadPair
    /\ (pc = "done" /\ result = FontReturned /\ Kern # << >>) =>
          \A n \in 1..Len(Kern[1].Subtables) :
              /\ KeysIncreasing(Kern[1].Subtables[n].Pairs)
              /\ \A l \in KernGlyphChoices, r \in KernGlyphChoices :
                    kernFormat0Get(Kern[1].Subtables[n], l, r) =
                        LinearScan(Kern[1].Subtables[n].Pairs, l, r, 1)

\* a font with a subtable of three pairs was returned and Kerning found the
\* last pair of it
C22_Witness ==
    /\ pc = "done"
    /\ result = FontReturned
    /\ Kern # << >>
    /\ Len(Kern[1].Subtables) = 1
    /\ Len(Kern[1].Subtables[1].Pairs) = 3
    /\ calls # << >>
    /\ calls[1].fn = "Kerning"
    /\ calls[1].left = 2
    /\ calls[1].right = 1
    /\ calls[1].out.value = 7

\* the first subtable of the kern table has an unsupported version or format
\* and lies inside the table with its declared length
FirstSubtableSkipped(buf) ==
    /\ Len(buf) >= 10
    /\ ReadUint16(buf, 0) = 0
    /\ ReadUint16(buf, 2) >= 1
    /\ ReadUint16(buf, 4) # 0 \/ ReadUint8(buf, 8) # 0
    /\ ReadUint16(buf, 6) >= 6
    /\ 4 + ReadUint16(buf, 6) <= Len(buf)

\* the kern table without its first subtable
WithoutFirstSubtable(buf) ==
    Words(<< 0, ReadUint16(buf, 2) - 1 >>) \o Slice(buf, 4 + ReadUint16(buf, 6), Len(buf))

\* C27: a kern table whose first subtable is skipped for its version or format
\* is decoded like the table without that subtable: the same subtables, or the
\* same error.
C27_SkippedSubtableAbsent ==
    (pc = "done" /\ "kern" \in DOMAIN table /\ FirstSubtableSkipped(table["kern"])) =>
        LET expected == parseKern(WithoutFirstSubtable(table["kern"]))
        IN  /\ result = IF expected.err = Nil THEN FontReturned ELSE expected.err
            /\ result = FontReturned => Kern[1].Subtables = expected.Subtables

\* ------------------------------------------------------------------------
\* post: decoding (lines 1349-1412) and the glyph names (lines 1342-1347)
\* ------------------------------------------------------------------------

ErrPostBadTable  == "post: bad table"
ErrPostNumGlyphs == "post: numGlyphs does not match maxp table numGlyphs"
ErrPostVersion25 == "post: version 2.5 not supported"

\* entry index of the standard Macintosh name list
MacintoshName(index) == << "macintosh", index >>

\* lines 1382-1391: the strings of the pool from pos on; a string is the
\* sequence of its bytes
RECURSIVE ReadStringData(_, _, _)
ReadStringData(buf, pos, stringData) ==
    IF Len(buf) - pos < 2
    THEN [err |-> IF Len(buf) - pos # 0 THEN ErrPostBadTable ELSE Nil, stringData |-> stringData]
    ELSE LET length == ReadUint8(buf, pos)
         IN  IF Len(buf) - (pos + 1) < length
             THEN [err |-> ErrPostBadTable, stringData |-> stringData]
             ELSE ReadStringData(buf, pos + 1 + length,
                                 Append(stringData, Slice(buf, pos + 1, pos + 1 + length)))

\* line 1399: the name index is taken to lie beyond the pool
BeyondStringData(stringData, index) == Len(stringData) < index - 258

\* lines 1395-1404: the names of the glyphs from glyph k on (0-based); an
\* index at the end of the pool passes line 1399 and panics at line 1402
RECURSIVE ReadGlyphNames(_, _, _, _, _)
ReadGlyphNames(buf, k, numGlyphs, stringData, names) ==
    IF k >= numGlyphs THEN [err |-> Nil, GlyphName |-> names]
    ELSE LET index == ReadUint16(buf, 34 + 2 * k)
         IN  IF index < 258
             THEN ReadGlyphNames(buf, k + 1, numGlyphs, stringData,
                                 Append(names, MacintoshName(index)))
             ELSE IF BeyondStringData(stringData, index)
             THEN [err |-> ErrPostBadTable, GlyphName |-> names]
             ELSE IF index - 258 >= Len(stringData)
             THEN [err |-> Panic, GlyphName |-> names]
             ELSE ReadGlyphNames(buf, k + 1, numGlyphs, stringData,
                                 Append(names, stringData[index - 258 + 1]))

\* lines 1349-1412; bytes is sfnt.Tables["post"]
parsePost(bytes, numGlyphs, isCFF) ==
    LET version == Uint32At(bytes, 0)
        none    == [err |-> Nil, GlyphName |-> << >>]
        pool    == ReadStringData(bytes, 34 + 2 * numGlyphs, << >>)
    IN  IF Len(bytes) < 32 THEN [none EXCEPT !.err = ErrPostBadTable]
        ELSE IF version = << 1, 0 >> /\ ~ isCFF /\ Len(bytes) = 32 THEN none
        ELSE IF version = << 2, 0 >> /\ ~ isCFF /\ 34 <= Len(bytes)
        THEN IF ReadUint16(bytes, 32) # numGlyphs THEN [none EXCEPT !.err = ErrPostNumGlyphs]
             ELSE IF Len(bytes) < 34 + 2 * numGlyphs THEN [none EXCEPT !.err = ErrPostBadTable]
             ELSE IF pool.err # Nil THEN [none EXCEPT !.err = pool.err]
             ELSE ReadGlyphNames(bytes, 0, numGlyphs, pool.stringData, << >>)
        ELSE IF version = << 2, 20480 >> /\ Len(bytes) = 32
        THEN [none EXCEPT !.err = ErrPostVersion25]
        ELSE IF version = << 3, 0 >> /\ Len(bytes) = 32 THEN none
        ELSE [none EXCEPT !.err = ErrPostBadTable]

\* lines 1342-1347: postTable.Get
postGet(GlyphName, glyphID) ==
    IF Len(GlyphName) % Pow16 <= glyphID THEN << >> ELSE GlyphName[glyphID + 1]

\* lines 47-49: SFNT.GlyphName; postTable is sfnt.Post (<< >> when nil, and the
\* call panics)
GlyphNameOf(postTable, glyphID) ==
    IF postTable = << >> THEN [panic |-> TRUE, value |-> << >>]
    ELSE [panic |-> FALSE, value |-> postGet(postTable[1].GlyphName, glyphID)]

\* lines 181-182
ParsePostTable ==
    /\ pc = "parsePost"
    /\ LET parsed == parsePost(table["post"], NumGlyphs, IsCFF)
       IN  /\ Post' = IF Len(table["post"]) >= 32
                      THEN << [GlyphName |-> parsed.GlyphName] >>
                      ELSE Post
           /\ IF parsed.err # Nil
              THEN Return(parsed.err)
              ELSE pc' = "parsed" /\ UNCHANGED result
    /\ UNCHANGED << Name, calls >>
    /\ UNCHANGED notNames

\* line 188, after the table named last
ReturnDecoded ==
    /\ pc = "parsed"
    /\ Return(FontReturned)
    /\ UNCHANGED << Post, Name, calls >>
    /\ UNCHANGED notNames

\* lines 47-49: one call of GlyphName on the returned font
GlyphName ==
    /\ pc = "done"
    /\ result = FontReturned
    /\ calls = << >>
    /\ \E g \in GlyphIDChoices :
          calls' = << [fn |-> "GlyphName", glyphID |-> g, out |-> GlyphNameOf(Post, g)] >>
    /\ UNCHANGED << pc, result, Post, Name >>
    /\ UNCHANGED notNames

\* the 32 bytes every post table begins with
PostHeader(version) == BE32(version) \o [k \in 1..28 |-> 0]

\* a post table of version 2.0: the glyph count, the name indices, the strings
\* of the pool with their lengths before them, and extra bytes
PostBytes(numGlyphs, indices, pool, extra) ==
    PostHeader(<< 2, 0 >>) \o Words(<< numGlyphs >>) \o Words(indices)
        \o Flatten([k \in 1..Len(pool) |-> << Len(pool[k]) >> \o pool[k]]) \o extra

\* the largest glyph count of the fonts with glyph names
MaxPostGlyphs == 2

\* name indices in the Macintosh list, in a pool of up to two strings, at its
\* end and beyond
NameIndexChoices == { 0, 257, 258, 259, 260 }

\* pools of no, one and two strings
PoolChoices == { << >>, << << 97 >> >>, << << 97 >>, << 98, 99 >> >> }

PostFont(isTrueType, numGlyphs, bytes) ==
    [isTrueType |-> isTrueType, format |-> 0, numGlyphs |-> numGlyphs,
     tbl |-> [t \in { "post" } |-> bytes]]

\* version 2.0 with every choice of indices and pool; with a glyph count that
\* is not maxp's; with a byte after the pool; with a string longer than the
\* rest; without the indices; in a CFF-flavored font; versions 1.0, 2.5, 3.0,
\* 4.0; version 1.0 with data; a table cut short
PostInputs ==
    UNION { { PostFont(TRUE, n, PostBytes(n, indices, pool, << >>)) :
                indices \in [1..n -> NameIndexChoices], pool \in PoolChoices } :
            n \in 1..MaxPostGlyphs }
    \cup { PostFont(TRUE, 2, PostBytes(1, << 0 >>, << >>, << >>)),
           PostFont(TRUE, 1, PostBytes(1, << 258 >>, << << 97 >> >>, << 0 >>)),
           PostFont(TRUE, 1, PostBytes(1, << 258 >>, << >>, << 5, 97 >>)),
           PostFont(TRUE, 2, PostBytes(2, << >>, << >>, << >>)),
           PostFont(FALSE, 1, PostBytes(1, << 0 >>, << >>, << >>)),
           PostFont(TRUE, 1, PostHeader(<< 1, 0 >>)),
           PostFont(TRUE, 1, PostHeader(<< 2, 20480 >>)),
           PostFont(TRUE, 1, PostHeader(<< 3, 0 >>)),
           PostFont(TRUE, 1, PostHeader(<< 4, 0 >>)),
           PostFont(TRUE, 1, PostHeader(<< 1, 0 >>) \o << 0, 0 >>),
           PostFont(TRUE, 1, SubSeq(PostHeader(<< 1, 0 >>), 1, 31)) }

PostInit == \E font \in PostInputs : TblInit(font, "parsePost")

PostNext ==
    \/ ParsePostTable
    \/ ReturnDecoded
    \/ GlyphName

SpecPost == PostInit /\ [][PostNext]_vars

\* the strings of a well-formed pool from pos on
RECURSIVE PoolStrings(_, _)
PoolStrings(buf, pos) ==
    IF pos >= Len(buf) THEN << >>
    ELSE << Slice(buf, pos + 1, pos + 1 + buf[pos + 1]) >>
             \o PoolStrings(buf, pos + 1 + buf[pos + 1])

\* the bytes from pos on are strings with their lengths before them, the last
\* of them not empty
RECURSIVE PoolWellFormed(_, _)
PoolWellFormed(buf, pos) ==
    \/ pos = Len(buf)
    \/ /\ pos + 2 <= Len(buf)
       /\ pos + 1 + buf[pos + 1] <= Len(buf)
       /\ PoolWellFormed(buf, pos + 1 + buf[pos + 1])

\* the post table is of version 2.0 in a font that is not CFF-flavored, with
\* maxp's glyph count, all name indices and a well-formed pool
PostVersion2 ==
    /\ ~ IsCFF
    /\ "post" \in DOMAIN table
    /\ Len(table["post"]) >= 34 + 2 * NumGlyphs
    /\ Uint32At(table["post"], 0) = << 2, 0 >>
    /\ Uint16At(table["post"], 32) = NumGlyphs
    /\ PoolWellFormed(table["post"], 34 + 2 * NumGlyphs)

NameIndex(g) == Uint16At(table["post"], 34 + 2 * g)

\* C23: with a pool of n strings, name index i < 258 gives entry i of the
\* Macintosh list, 258 <= i < 258+n gives string i-258 of the pool, and a glyph
\* with i >= 258+n makes decoding fail with the post bad-table error; GlyphName
\* is the empty string at and beyond the number of decoded names.
C23_PostNames ==
    /\ (pc = "done" /\ PostVersion2) =>
          LET pool == PoolStrings(table["post"], 34 + 2 * NumGlyphs)
          IN  IF \E g \in 0..(NumGlyphs - 1) : NameIndex(g) >= 258 + Len(pool)
              THEN result = ErrPostBadTable
              ELSE /\ result = FontReturned
                   /\ Len(Post[1].GlyphName) = NumGlyphs
                   /\ \A g \in 0..(NumGlyphs - 1) :
                         Post[1].GlyphName[g + 1] =
                             IF NameIndex(g) < 258 THEN MacintoshName(NameIndex(g))
                             ELSE pool[NameIndex(g) - 258 + 1]
    /\ \A k \in CallsOf("GlyphName") :
          /\ ~ calls[k].out.panic
          /\ calls[k].glyphID >= Len(Post[1].GlyphName) => calls[k].out.value = << >>

\* the same for the tables whose name indices are all below 258+n or above it
C23_PostNamesAwayFromEnd ==
    (PostVersion2 /\ \A g \in 0..(NumGlyphs - 1) :
         NameIndex(g) # 258 + Len(PoolStrings(table["post"], 34 + 2 * NumGlyphs))) =>
        C23_PostNames

\* ------------------------------------------------------------------------
\* name: decoding (lines 1151-1194)
\* ------------------------------------------------------------------------

ErrNameBadTable   == "name: bad table"
ErrNameBadVersion == "name: bad version"

\* lines 1151-1194; bytes is sfnt.Tables["name"]. sfnt.Name.LangTagRecord is
\* never allocated, so the assignment to its element 0 at line 1188 panics
parseName(bytes) ==
    LET version      == ReadUint16(bytes, 0)
        count        == ReadUint16(bytes, 2)
        langTagCount == ReadUint16(bytes, 6 + 12 * count)
        none         == [err |-> Nil, NameRecord |-> << >>, LangTagRecord |-> << >>]
        records      == [k \in 1..count |->
                           [PlatformID |-> ReadUint16(bytes, 6 + 12 * (k - 1)),
                            EncodingID |-> ReadUint16(bytes, 6 + 12 * (k - 1) + 2),
                            LanguageID |-> ReadUint16(bytes, 6 + 12 * (k - 1) + 4),
                            NameID     |-> ReadUint16(bytes, 6 + 12 * (k - 1) + 6),
                            Length     |-> ReadUint16(bytes, 6 + 12 * (k - 1) + 8),
                            Offset     |-> ReadUint16(bytes, 6 + 12 * (k - 1) + 10)]]
        read         == [none EXCEPT !.NameRecord = records]
    IN  IF Len(bytes) < 6 THEN [none EXCEPT !.err = ErrNameBadTable]
        ELSE IF version # 0 /\ version # 1 THEN [none EXCEPT !.err = ErrNameBadVersion]
        ELSE IF Len(bytes) < 6 + 12 * count THEN [none EXCEPT !.err = ErrNameBadTable]
        ELSE IF version # 1 THEN read
        ELSE IF Len(bytes) < 6 + 12 * count + 2 THEN [read EXCEPT !.err = ErrNameBadTable]
        ELSE IF Len(bytes) < 6 + 12 * count + 2 + 4 * langTagCount
        THEN [read EXCEPT !.err = ErrNameBadTable]
        ELSE IF 0 < langTagCount THEN [read EXCEPT !.err = Panic]
        ELSE read

\* lines 177-178
ParseNameTable ==
    /\ pc = "parseName"
    /\ LET parsed == parseName(table["name"])
       IN  /\ Name' = IF Len(table["name"]) >= 6
                      THEN << [NameRecord |-> parsed.NameRecord,
                               LangTagRecord |-> parsed.LangTagRecord] >>
                      ELSE Name
           /\ IF parsed.err # Nil
              THEN Return(parsed.err)
              ELSE pc' = "parsed" /\ UNCHANGED result
    /\ UNCHANGED << Post, calls >>
    /\ UNCHANGED notNames

\* the largest numbers of name records and of language tags
MaxNameRecords == 2

\* a name table: version, count, storage offset, the records, the words after
\* them and extra bytes
NameBytes(version, count, records, rest, extra) ==
    Words(<< version, count, 0 >>)
        \o Flatten([k \in 1..records |-> Words(<< 3, 1, 1033, k, 4, 0 >>)])
        \o Words(rest) \o [k \in 1..extra |-> 65]

\* versions 0, 1 and 2; with all the records or one less; version 1 with every
\* language-tag count, the tags there or cut short; with and without string
\* data; tables without a header or without the language-tag count
NameInputs ==
    { [isTrueType |-> TRUE, format |-> 0, numGlyphs |-> 1,
       tbl |-> [t \in { "name" } |-> bytes]] :
      bytes \in
        { NameBytes(v, c, c, << >>, x) : v \in { 0, 2 }, c \in 0..MaxNameRecords, x \in { 0, 4 } }
        \cup { NameBytes(v, c + 1, c, << >>, 0) : v \in { 0, 1 }, c \in 0..MaxNameRecords }
        \cup UNION { { NameBytes(1, c, c, << k >> \o [t \in 1..(2 * m) |-> 7], x) :
                         c \in 0..MaxNameRecords, x \in { 0, 2, 4 }, m \in 0..k } :
                     k \in 0..MaxNameRecords }
        \cup { << 0, 1, 0, 0 >>, NameBytes(1, 1, 1, << >>, 0), NameBytes(1, 0, 0, << >>, 1) } }

NameInit == \E font \in NameInputs : TblInit(font, "parseName")

NameNext ==
    \/ ParseNameTable
    \/ ReturnDecoded

SpecName == NameInit /\ [][NameNext]_vars

\* the name table is of version 1 and holds its header and its records
NameVersion1 ==
    /\ "name" \in DOMAIN table
    /\ Len(table["name"]) >= 6
    /\ Uint16At(table["name"], 0) = 1
    /\ Len(table["name"]) >= 6 + 12 * Uint16At(table["name"], 2)

\* the language-tag count of a version-1 table that holds it
LangTagCount == Uint16At(table["name"], 6 + 12 * Uint16At(table["name"], 2))

\* the table holds the language-tag count and all the language tags
HoldsLangTags ==
    /\ Len(table["name"]) >= 6 + 12 * Uint16At(table["name"], 2) + 2
    /\ Len(table["name"]) >= 6 + 12 * Uint16At(table["name"], 2) + 2 + 4 * LangTagCount

\* C30: a name table of version 1 that is at least 6 + 12*c + 2 + 4*k bytes
\* long is decoded to exactly k language-tag records, for every k; a shorter
\* one gives the name bad-table error.
C30_NameLangTags ==
    (pc = "done" /\ NameVersion1) =>
        IF HoldsLangTags
        THEN result = FontReturned /\ Len(Name[1].LangTagRecord) = LangTagCount
        ELSE result = ErrNameBadTable

\* the same for the tables without language tags
C30_NameWithoutLangTags ==
    (NameVersion1 /\ (HoldsLangTags => LangTagCount = 0)) => C30_NameLangTags

\* ------------------------------------------------------------------------
\* head: decoding (lines 781-823), followed by hhea and hmtx
\* ------------------------------------------------------------------------

ErrHeadMissing  == "head: missing table"
ErrHeadBadTable == "head: bad table"
ErrHeadVersion  == "head: bad version"
ErrHeadMagic    == "head: bad magic version"
ErrHeadDates    == "head: created and/or modified dates too large"
ErrHeadLocFormat == "head: bad indexToLocFormat"

\* lines 781-823; the result is the error and IndexToLocFormat
parseHead(tbl) ==
    IF "head" \notin DOMAIN tbl THEN [err |-> ErrHeadMissing, IndexToLocFormat |-> 0]
    ELSE LET buf == tbl["head"]
             majorVersion == ReadUint16(buf, 0)
             minorVersion == ReadUint16(buf, 2)
             format       == ReadInt16(buf, 50)
         IN  IF Len(buf) # 54 THEN [err |-> ErrHeadBadTable, IndexToLocFormat |-> 0]
             ELSE IF majorVersion # 1 /\ minorVersion # 0
             THEN [err |-> ErrHeadVersion, IndexToLocFormat |-> 0]
             ELSE IF ReadUint32(buf, 12) # << 24335, 15605 >>
             THEN [err |-> ErrHeadMagic, IndexToLocFormat |-> 0]
             \* math.MaxInt64 < created || math.MaxInt64 < modified
             ELSE IF ReadUint8(buf, 20) >= 128 \/ ReadUint8(buf, 28) >= 128
             THEN [err |-> ErrHeadDates, IndexToLocFormat |-> 0]
             ELSE IF format # 0 /\ format # 1
             THEN [err |-> ErrHeadLocFormat, IndexToLocFormat |-> format]
             ELSE [err |-> Nil, IndexToLocFormat |-> format]

\* lines 144-145
ParseHeadTable ==
    /\ pc = "parseHead"
    /\ LET r == parseHead(table)
       IN  IF r.err # Nil
           THEN Return(r.err) /\ UNCHANGED IndexToLocFormat
           ELSE /\ IndexToLocFormat' = r.IndexToLocFormat
                /\ pc' = "parseHhea"
                /\ UNCHANGED result
    /\ UNCHANGED << IsTrueType, NumGlyphs, table, Loca, Glyf, Hhea, Hmtx, Kern, calls >>
    /\ UNCHANGED notTbl

\* a head table: the version, the magic number, the first byte of the created
\* date, indexToLocFormat, and extra bytes
HeadBytes(majorVersion, minorVersion, magic, created, format, extra) ==
    Words(<< majorVersion, minorVersion, 1, 0, 0, 0 >>) \o BE32(magic)
        \o Words(<< 0, 1000 >>) \o << created >> \o [k \in 1..29 |-> 0]
        \o Words(<< (format + Pow16) % Pow16, 0 >>) \o [k \in 1..extra |-> 0]

\* the four combinations of a right and a wrong major and minor version
VersionChoices == { << 1, 0 >>, << 1, 1 >>, << 2, 0 >>, << 2, 1 >> }

\* every version with a right and a wrong magic number and every
\* indexToLocFormat from -1 to 2; a date too large; a table too long
HeadChoices ==
    { HeadBytes(v[1], v[2], m, 0, f, 0) :
        v \in VersionChoices, m \in { << 24335, 15605 >>, << 0, 0 >> }, f \in { -1, 0, 1, 2 } }
    \cup { HeadBytes(1, 0, << 24335, 15605 >>, 128, 0, 0),
           HeadBytes(1, 0, << 24335, 15605 >>, 0, 0, 2) }

\* fonts of one glyph with a head, an hhea and an hmtx table
HeadInputs ==
    { [isTrueType |-> FALSE, format |-> 0, numGlyphs |-> 1,
       tbl |-> [t \in { "head", "hhea", "hmtx" } |->
                  IF t = "head" THEN h ELSE IF t = "hhea" THEN hh ELSE HmtxBytes(1, 0)]] :
      h \in HeadChoices, hh \in HheaChoices(1) }

HeadInit == \E font \in HeadInputs : TblInit(font, "parseHead")

HeadNext ==
    \/ ParseHeadTable
    \/ ParseHheaTable
    \/ ParseHmtxTable
    \/ ReturnParsed

SpecHead == HeadInit /\ [][HeadNext]_vars

\* the table named is of the length given and its version is not 1.0
VersionWrong(name, length) ==
    /\ name \in DOMAIN table
    /\ Len(table[name]) = length
    /\ << Uint16At(table[name], 0), Uint16At(table[name], 2) >> # << 1, 0 >>

\* C29: a head table or an hhea table whose version is not 1.0, in one field
\* or in both, makes ParseSFNT fail with the table's bad-version error.
C29_BadVersionRejected ==
    pc = "done" =>
        /\ VersionWrong("head", 54) => result = ErrHeadVersion
        /\ (parseHead(table).err = Nil /\ VersionWrong("hhea", 36)) => result = ErrHheaVersion

\* the same for the versions with both fields wrong
C29_BothFieldsWrongRejected ==
    pc = "done" =>
        /\ (VersionWrong("head", 54) /\ Uint16At(table["head"], 0) # 1
               /\ Uint16At(table["head"], 2) # 0) => result = ErrHeadVersion
        /\ (parseHead(table).err = Nil /\ VersionWrong("hhea", 36)
               /\ Uint16At(table["hhea"], 0) # 1 /\ Uint16At(table["hhea"], 2) # 0) =>
              result = ErrHheaVersion

\* ------------------------------------------------------------------------
\* Claims about faults in the outline decoder
\* ------------------------------------------------------------------------

\* glyph g is a composite glyph with a component record that names a glyph
\* with a zero-length range
HasEmptyComponent(g) ==
    /\ IsComposite(g)
    /\ LET cs == ComponentRecords(GlyphBytes(g), 10)
       IN  \E n \in 1..Len(cs) :
              /\ cs[n].subGlyphID < NumGlyphs
              /\ Len(GlyphBytes(cs[n].subGlyphID)) = 0

\* C25: GlyphContour of a composite glyph with a component that names an empty
\* glyph returns an outline, 'no outline' or an error, never a fault.
C25_EmptyComponent ==
    \A k \in ContourCalls :
        HasEmptyComponent(calls[k].glyphID) => calls[k].out.err # Panic

\* glyph g has a glyph header with a contour count of 0 or more
IsSimpleGlyph(g) ==
    /\ IsTrueType
    /\ g < NumGlyphs
    /\ Len(GlyphBytes(g)) >= 10
    /\ ReadInt16(GlyphBytes(g), 0) >= 0

\* the outline has (last end point + 1) flags and coordinates
PointsMatchEndPoints(contour) ==
    LET n == IF contour.EndPoints = << >> THEN 0
             ELSE contour.EndPoints[Len(contour.EndPoints)] + 1
    IN  /\ Len(contour.OnCurve) = n
        /\ Len(contour.XCoordinates) = n
        /\ Len(contour.YCoordinates) = n

\* C26: GlyphContour of a simple glyph returns an error or an outline with
\* (last end point + 1) flags and coordinates, whatever the glyph's bytes are.
C26_SimpleGlyphTotal ==
    \A k \in ContourCalls :
        IsSimpleGlyph(calls[k].glyphID) =>
            /\ calls[k].out.err # Panic
            /\ (calls[k].out.err = Nil /\ ~ calls[k].out.nil) =>
                  PointsMatchEndPoints(calls[k].out.contour)

\* the same for the glyphs with at least one contour and without a flag that
\* is repeated past the last point
C26_ReturnedPointsMatch ==
    \A k \in ContourCalls :
        (IsSimpleGlyph(calls[k].glyphID) /\ calls[k].out.err = Nil /\ ~ calls[k].out.nil) =>
            PointsMatchEndPoints(calls[k].out.contour)


\* ------------------------------------------------------------------------
\* Claims about the encoding records of the character map
\* ------------------------------------------------------------------------

\* the offset that encoding record k (1-based) of the table declares
RecordOffset(k) == ReadUint32(b, 8 + 8 * (k - 1))

\* the bytes of the subtable that encoding record k declares
RecordBytes(k) ==
    LET sub == Slice(b, ToInt(RecordOffset(k)), Len(b))
    IN  Slice(sub, 0, ToInt(SubtableLength(sub, ReadUint16(sub, 0))))

\* the subtable reference of record k is an index into the decoded subtables,
\* and the subtable there is the one decoded from the record's own bytes
RefersToOwnSubtable(k) ==
    LET e == Cmap.EncodingRecords[k]
    IN  /\ e.Subtable < Len(Cmap.Subtables)
        /\ Cmap.Subtables[e.Subtable + 1] =
               DecodeSubtable(RecordBytes(k), e.Format, NumGlyphs).subtable

\* C28: after a successful decode of the character map every encoding
\* record's subtable reference is a valid index into the decoded subtables and
\* the subtable at that index is the one decoded from the record's own offset;
\* two records with the same offset and length carry the same reference.
C28_RecordReferences ==
    (pc = "done" /\ result = Nil) =>
        /\ \A k \in 1..Len(Cmap.EncodingRecords) : RefersToOwnSubtable(k)
        /\ \A k, h \in 1..Len(Cmap.EncodingRecords) :
               (RecordOffset(k) = RecordOffset(h) /\ RecordBytes(k) = RecordBytes(h))
                   => Cmap.EncodingRecords[k].Subtable = Cmap.EncodingRecords[h].Subtable

\* the first record of a decoded format refers to its own subtable
C28_FirstRecordReference ==
    (pc = "done" /\ result = Nil /\ 0 < Len(Cmap.EncodingRecords)
        /\ Cmap.EncodingRecords[1].Format \in { 0, 4, 6, 12 }) =>
        RefersToOwnSubtable(1)


\* ------------------------------------------------------------------------
\* Queries that run at the same time on a returned font (lines 43-64)
\* ------------------------------------------------------------------------

\* the largest number of threads that query one font
MaxThreads == 2

Threads == 1..MaxThreads

\* a thread that has not called yet
Idle == [at |-> "idle", fn |-> "", args |-> << >>, n |-> 0, mixed |-> FALSE, out |-> << >>]

\* what a call holds on entry: the named result k (line 965) is zero and no
\* contour is built
Fresh == [k |-> 0, contour |-> NoContour]

\* every call works in the same structures
AllocatedShared(t) == 1

\* lines 575 and 965: the structures a call works in are its own, k in its
\* frame and the glyfContour allocated by this call
Allocated(t) == t

\* the queries the threads make
QueryChoices ==
    { [fn |-> "Kerning", args |-> << 1, 2 >>], [fn |-> "Kerning", args |-> << 2, 1 >>],
      [fn |-> "GlyphContour", args |-> << 0 >>], [fn |-> "GlyphContour", args |-> << 2 >>],
      [fn |-> "GlyphContour", args |-> << 3 >>], [fn |-> "GlyphIndex", args |-> << 66 >>],
      [fn |-> "GlyphName", args |-> << 1 >>], [fn |-> "GlyphAdvance", args |-> << 2 >>] }

\* thread t takes a step: its record becomes rec, and every other running
\* query has had a step of another thread in between its own
Advance(t, rec) ==
    threads' = [u \in Threads |->
                  IF u = t THEN rec
                  ELSE IF threads[u].at = "running" THEN [threads[u] EXCEPT !.mixed = TRUE]
                  ELSE threads[u]]

Returned(t, out) == Advance(t, [threads[t] EXCEPT !.at = "returned", !.out = out])

\* what the queries leave alone: the font, its tables and the buffer
QueryFrame ==
    /\ UNCHANGED << dirVars, decVars, cmapVars, tblVars, nameVars >>

\* thread t calls one of the queries
CallQuery(t) ==
    /\ pc = "done"
    /\ result = FontReturned
    /\ threads[t].at = "idle"
    /\ \E q \in QueryChoices :
          Advance(t, [Idle EXCEPT !.at = "running", !.fn = q.fn, !.args = q.args])
    /\ locals' = [locals EXCEPT ![Allocated(t)] = Fresh]
    /\ QueryFrame

\* (contour, err) as GlyphContour returns it
Outcome(r) == [err |-> r.err, nil |-> r.nil, contour |-> r.contour]

\* lines 43-49 and 58-60: GlyphIndex, GlyphName and GlyphAdvance read the
\* decoded table and return
Lookup(t) ==
    /\ threads[t].at = "running"
    /\ threads[t].fn \in { "GlyphIndex", "GlyphName", "GlyphAdvance" }
    /\ LET a == threads[t].args[1]
       IN  Returned(t, CASE threads[t].fn = "GlyphIndex" -> cmapTableGet(Cmap.Subtables, a)
                         [] threads[t].fn = "GlyphName" -> GlyphNameOf(Post, a)
                         [] OTHER -> [value |-> GlyphAdvanceOf(Hmtx, a)])
    /\ UNCHANGED locals
    /\ QueryFrame

\* lines 62-64 and 966-973: one iteration of the loop over the kern subtables
KerningStep(t) ==
    /\ threads[t].at = "running"
    /\ threads[t].fn = "Kerning"
    /\ IF Kern = << >>
       THEN Returned(t, [panic |-> TRUE, value |-> 0]) /\ UNCHANGED locals
       ELSE /\ threads[t].n < Len(Kern[1].Subtables)
            /\ LET subtable == Kern[1].Subtables[threads[t].n + 1]
                   k == locals[Allocated(t)].k
               IN  locals' = [locals EXCEPT ![Allocated(t)].k =
                                kernCombine(subtable.Coverage, k,
                                            kernFormat0Get(subtable, threads[t].args[1],
                                                           threads[t].args[2]))]
            /\ Advance(t, [threads[t] EXCEPT !.n = @ + 1])
    /\ QueryFrame

\* line 974: Kerning returns k
KerningReturn(t) ==
    /\ threads[t].at = "running"
    /\ threads[t].fn = "Kerning"
    /\ Kern # << >>
    /\ threads[t].n = Len(Kern[1].Subtables)
    /\ Returned(t, [panic |-> FALSE, value |-> locals[Allocated(t)].k])
    /\ UNCHANGED locals
    /\ QueryFrame

\* the glyph of a GlyphContour call is composite and its components are read
\* one after another
ReadsComponents(g) ==
    /\ IsTrueType
    /\ Glyf # << >>
    /\ LET got == glyfGet(Glyf[1].data, Glyf[1].loca, g)
       IN  ~ got.panic /\ ~ got.nil /\ 10 <= Len(got.bytes) /\ ReadInt16(got.bytes, 0) < 0

\* lines 51-56 and 565-667: GlyphContour up to the first component; a simple
\* glyph is decoded here
ContourHeader(t) ==
    /\ threads[t].at = "running"
    /\ threads[t].fn = "GlyphContour"
    /\ threads[t].n = 0
    /\ LET g == threads[t].args[1]
       IN  IF ReadsComponents(g)
           THEN /\ locals' = [locals EXCEPT ![Allocated(t)].contour =
                                [NoContour EXCEPT !.GlyphID = g]]
                /\ Advance(t, [threads[t] EXCEPT !.n = 10])
           ELSE /\ Returned(t, Outcome(GlyphContourOf(IsTrueType, Glyf, g)))
                /\ UNCHANGED locals
    /\ QueryFrame

\* lines 669-745: one iteration of the loop over the components
ContourComponent(t) ==
    /\ threads[t].at = "running"
    /\ threads[t].fn = "GlyphContour"
    /\ 0 < threads[t].n
    /\ LET got == glyfGet(Glyf[1].data, Glyf[1].loca, threads[t].args[1])
           c   == ReadComponent(got.bytes, threads[t].n)
           sub == Contour(Glyf[1].data, Glyf[1].loca, c.subGlyphID, 1)
           merged == AppendComponent(locals[Allocated(t)].contour, c, sub.contour)
       IN  IF c.err # Nil
           THEN Returned(t, Outcome(ContourFail(c.err, 0, {}))) /\ UNCHANGED locals
           ELSE IF sub.err # Nil
           THEN Returned(t, Outcome(ContourFail(sub.err, 0, {}))) /\ UNCHANGED locals
           ELSE IF sub.nil
           THEN Returned(t, Outcome(ContourFail(Panic, 0, {}))) /\ UNCHANGED locals
           ELSE /\ locals' = [locals EXCEPT ![Allocated(t)].contour = merged]
                /\ IF Bit(c.flags, 32)
                   THEN Advance(t, [threads[t] EXCEPT !.n = c.pos])
                   ELSE Returned(t, Outcome(ContourOf(merged, 0, {})))
    /\ QueryFrame

\* glyphs 0 and 1 are simple; glyph 2 is made of both of them
QueryGlyphs(first) ==
    << Triangle, TwoPoints,
       CompositeBytes(<< Component(34, first, 3, 4, << >>),
                         Component(2, 1 - first, 5, 5, << >> ) >>) >>

\* the kern subtables of the fonts: pairs that add, and a subtable whose
\* coverage has the minimum flag
QueryKern(flagged) ==
    KernBytes(0, 2, << KernPairs(0, << << 1, 2, -50 >>, << 2, 1, 7 >> >>),
                       KernPairs(flagged, << << 1, 2, 30 >>, << 2, 1, 4 >> >>) >>)

\* the tables of a TrueType font of three glyphs
QueryTables(first, flagged) ==
    [t \in { "cmap", "glyf", "loca", "hmtx", "kern", "post" } |->
       CASE t = "cmap" -> Format4(<< << 65, 66, -64, 0 >> >>, << >>)
         [] t = "glyf" -> Flatten(QueryGlyphs(first))
         [] t = "loca" -> [zeros |-> 0,
                           bytes |-> LocaBytes(1, GlyphOffsets(QueryGlyphs(first)))]
         [] t = "hmtx" -> HmtxBytes(2, 1)
         [] t = "kern" -> QueryKern(flagged)
         [] OTHER -> PostBytes(3, << 0, 258, 259 >>, << << 97 >>, << 98, 99 >> >>, << >>)]

QueryFonts == { QueryTables(first, flagged) : first \in { 0, 1 }, flagged \in { 0, 2 } }

\* the font ParseSFNT returned for these tables (lines 144-188)
QueryInit ==
    \E tbl \in QueryFonts :
        /\ b = << >>
        /\ input = << >>
        /\ pc = "done"
        /\ numTables = 0
        /\ i = 0
        /\ dir = << >>
        /\ checksumAdjustment = U32(0)
        /\ tables = NoTables
        /\ result = FontReturned
        /\ run = 1
        /\ accepted = << >>
        /\ changed = -1
        /\ IsCFF = FALSE
        /\ IsTrueType = TRUE
        /\ decoded = {}
        /\ tableNames = << >>
        /\ order = << >>
        /\ NumGlyphs = 3
        /\ j = 0
        /\ offsets = << >>
        /\ lengths = << >>
        /\ Cmap = [EncodingRecords |-> << EncodingRecord(3, 1, 4, 0) >>,
                   Subtables |-> << DecodeSubtable(tbl["cmap"], 4, 3).subtable >>]
        /\ rs = NoHeader
        /\ lookups = << >>
        /\ table = tbl
        /\ IndexToLocFormat = 1
        /\ Loca = << [Offsets |-> parseLoca(tbl["loca"], 3, 1).Offsets] >>
        /\ Glyf = << [data |-> tbl["glyf"], loca |-> parseLoca(tbl["loca"], 3, 1).Offsets] >>
        /\ Hhea = << [NumberOfHMetrics |-> 2] >>
        /\ Hmtx = << parseHmtx(tbl, 3, 2).hmtx >>
        /\ Kern = << [Subtables |-> parseKern(tbl["kern"]).Subtables] >>
        /\ Post = << [GlyphName |-> parsePost(tbl["post"], 3, FALSE).GlyphName] >>
        /\ Name = << >>
        /\ calls = << >>
        /\ threads = [t \in Threads |-> Idle]
        /\ locals = [t \in Threads |-> Fresh]

QueryNext ==
    \E t \in Threads :
        \/ CallQuery(t)
        \/ Lookup(t)
        \/ KerningStep(t)
        \/ KerningReturn(t)
        \/ ContourHeader(t)
        \/ ContourComponent(t)

SpecQuery == QueryInit /\ [][QueryNext]_vars

\* what the query of a thread returns when it runs alone
Sequential(q) ==
    CASE q.fn = "Kerning" -> KerningOf(Kern, q.args[1], q.args[2])
      [] q.fn = "GlyphContour" -> Outcome(GlyphContourOf(IsTrueType, Glyf, q.args[1]))
      [] q.fn = "GlyphIndex" -> cmapTableGet(Cmap.Subtables, q.args[1])
      [] q.fn = "GlyphName" -> GlyphNameOf(Post, q.args[1])
      [] OTHER -> [value |-> GlyphAdvanceOf(Hmtx, q.args[1])]

\* every query that has returned returned what it returns when it runs alone
ResultsSequential ==
    \A t \in Threads : threads[t].at = "returned" => threads[t].out = Sequential(threads[t])

\* the font, the decoded tables and the buffer
Shared ==
    << b, table, IsCFF, IsTrueType, NumGlyphs, IndexToLocFormat, Cmap, Loca, Glyf, Hhea, Hmtx,
       Kern, Post, Name >>

\* C24: after ParseSFNT has returned a font, every step of a query leaves the
\* font, the decoded tables and the buffer unchanged, and in any interleaving
\* of the queries of several threads each query returns what it returns when
\* the queries run one after another.
C24_QueriesIndependent == [][Shared' = Shared]_vars /\ []ResultsSequential

\* two queries that build their results step by step, Kerning over two
\* subtables and GlyphContour of a composite glyph, have both returned, each
\* with steps of the other in between its own
C24_Witness ==
    /\ threads[1].at = "returned" /\ threads[1].mixed /\ threads[1].fn = "Kerning"
    /\ threads[1].out.value # 0
    /\ threads[2].at = "returned" /\ threads[2].mixed /\ threads[2].fn = "GlyphContour"
    /\ threads[2].args = << 2 >>
    /\ threads[2].out.err = Nil
    /\ Len(threads[2].out.contour.EndPoints) = 3

====
